---- MODULE Spec2Model ----
(***************************************************************************)
(* fixdecoder: the dictionary cache (getDictionary / LoadDictionary), the  *)
(* dictionary loader (parseDictionary, mergeLookups), the tag parser       *)
(* (ParseFix) and the validator (ValidateFixMessage).                      *)
(*                                                                         *)
(* Go strings are TLA+ strings; the byte 0x01 (SOH, the field separator)   *)
(* is written "|" throughout.  Go maps are functions with a finite domain; *)
(* the empty map is << >>.  A nil pointer is the value Nil.                *)
(***************************************************************************)
EXTENDS Integers, Sequences, FiniteSets, TLC

\* ------------------------------------------------------------------------
\* strings (package strings, strconv)
\* ------------------------------------------------------------------------

\* the field separator "\x01" of the wire format
SOH == "|"

\* the nil pointer; dictionary instances are numbered from 1
Nil == 0

CharAt(s, i) == SubSeq(s, i, i)

Digits == {"0", "1", "2", "3", "4", "5", "6", "7", "8", "9"}

DigitVal(c) ==
    CASE c = "0" -> 0 [] c = "1" -> 1 [] c = "2" -> 2 [] c = "3" -> 3
      [] c = "4" -> 4 [] c = "5" -> 5 [] c = "6" -> 6 [] c = "7" -> 7
      [] c = "8" -> 8 [] c = "9" -> 9

\* strings.Index(s, sub): the 0-based index of the first occurrence, or -1
StringsIndex(s, sub) ==
    LET n == Len(s)
        m == Len(sub)
        hits == {i \in 0..(n - m) : SubSeq(s, i + 1, i + m) = sub}
    IN  IF n < m \/ hits = {} THEN -1
        ELSE CHOOSE i \in hits : \A j \in hits : i <= j

\* strings.Contains(s, sub)
StringsContains(s, sub) == StringsIndex(s, sub) # -1

\* strings.Split(s, sep), sep non-empty: all the substrings between separators
RECURSIVE StringsSplit(_, _)
StringsSplit(s, sep) ==
    LET i == StringsIndex(s, sep)
    IN  IF i = -1 THEN <<s>>
        ELSE <<SubSeq(s, 1, i)>> \o StringsSplit(SubSeq(s, i + Len(sep) + 1, Len(s)), sep)

\* strings.SplitN(s, sep, 2): at most two substrings, the second unsplit
StringsSplitN2(s, sep) ==
    LET i == StringsIndex(s, sep)
    IN  IF i = -1 THEN <<s>>
        ELSE <<SubSeq(s, 1, i), SubSeq(s, i + Len(sep) + 1, Len(s))>>

\* strings.ReplaceAll(s, old, ""), old one character long
RECURSIVE StringsRemoveAll(_, _)
StringsRemoveAll(s, old) ==
    IF s = "" THEN ""
    ELSE IF CharAt(s, 1) = old THEN StringsRemoveAll(SubSeq(s, 2, Len(s)), old)
    ELSE CharAt(s, 1) \o StringsRemoveAll(SubSeq(s, 2, Len(s)), old)

\* the value of a non-empty string of decimal digits
RECURSIVE DigitsValue(_)
DigitsValue(s) ==
    IF Len(s) = 0 THEN 0
    ELSE DigitsValue(SubSeq(s, 1, Len(s) - 1)) * 10 + DigitVal(CharAt(s, Len(s)))

\* strconv.Atoi(s): an optional sign, then one or more decimal digits
\* (the inputs of the model are too short to overflow an int)
Atoi(s) ==
    LET signed == Len(s) > 0 /\ CharAt(s, 1) \in {"+", "-"}
        body == IF signed THEN SubSeq(s, 2, Len(s)) ELSE s
        ok == Len(body) > 0 /\ \A i \in 1..Len(body) : CharAt(body, i) \in Digits
    IN  IF ~ok THEN [err |-> TRUE, val |-> 0]
        ELSE [err |-> FALSE,
              val |-> IF signed /\ CharAt(s, 1) = "-" THEN 0 - DigitsValue(body)
                      ELSE DigitsValue(body)]

\* ------------------------------------------------------------------------
\* maps
\* ------------------------------------------------------------------------

EmptyMap == << >>

\* m[k] = v
MapPut(m, k, v) == (k :> v) @@ m

Range(f) == {f[x] : x \in DOMAIN f}

\* ------------------------------------------------------------------------
\* fixparser.go
\* ------------------------------------------------------------------------

\* one segment, split at every "=" instead of the first only
ParseFixPartSplitAll(p) ==
    LET kv == StringsSplit(p, "=")
    IN  IF p = "" THEN << >>
        ELSE IF Len(kv) # 2 THEN << >>
        ELSE IF Atoi(kv[1]).err THEN << >>
        ELSE <<[Tag |-> Atoi(kv[1]).val, Value |-> kv[2]]>>

\* one segment of the message: << >> when it is skipped, else <<FieldValue>>
ParseFixPart(p) ==
    LET kv == StringsSplitN2(p, "=")
    IN  IF p = "" THEN << >>
        ELSE IF Len(kv) # 2 THEN << >>
        ELSE IF Atoi(kv[1]).err THEN << >>
        ELSE <<[Tag |-> Atoi(kv[1]).val, Value |-> kv[2]]>>

RECURSIVE ParseFixParts(_)
ParseFixParts(parts) ==
    IF parts = << >> THEN << >>
    ELSE ParseFixPart(Head(parts)) \o ParseFixParts(Tail(parts))

\* ParseFix without the early return for a message that has no SOH
ParseFixNoGuard(msg) ==
    [isNil |-> FALSE, elems |-> ParseFixParts(StringsSplit(msg, SOH))]

\* ParseFix: the slice of fields in order; isNil tells the nil slice (no SOH
\* in the message) from the empty non-nil one
ParseFix(msg) ==
    IF ~StringsContains(msg, SOH) THEN [isNil |-> TRUE, elems |-> << >>]
    ELSE [isNil |-> FALSE, elems |-> ParseFixParts(StringsSplit(msg, SOH))]

\* ------------------------------------------------------------------------
\* fixtaglookup.go: the dictionary loader
\* ------------------------------------------------------------------------

\* the text of a dictionary that is not well-formed XML
MalformedXML == [malformed |-> TRUE]

\* a well-formed dictionary: what xml.Decoder.Decode stores into rawFix
\*   Fields:   sequence of [Name, Tag, Type, Values, ValuesWrapper], the last
\*             two sequences of [Enum, Description]
\*   Messages: sequence of [Name, MsgType, Fields], Fields a sequence of
\*             [Name, Required]
\*   Groups:   sequence of [NumInGroup, Tags]
rawFix(fields, messages, groups) ==
    [malformed |-> FALSE, Fields |-> fields, Messages |-> messages, Groups |-> groups]

\* the FixTagLookup parseDictionary starts from: seven empty maps
EmptyLookup ==
    [tagToName |-> EmptyMap, enumMap |-> EmptyMap, fieldTypes |-> EmptyMap,
     groupCounts |-> EmptyMap, groupOwners |-> EmptyMap, groupDefs |-> EmptyMap,
     Messages |-> EmptyMap]

\* for _, v := range values { enumMap[v.Enum] = v.Description }
RECURSIVE PutEnums(_, _)
PutEnums(enumMap, values) ==
    IF values = << >> THEN enumMap
    ELSE PutEnums(MapPut(enumMap, Head(values).Enum, Head(values).Description),
                  Tail(values))

\* the body of parseFields' loop for one field element
parseField(f, d) ==
    LET enumMap == PutEnums(PutEnums(EmptyMap, f.Values), f.ValuesWrapper)
    IN  [d EXCEPT !.tagToName = MapPut(@, f.Tag, f.Name),
                  !.fieldTypes = MapPut(@, f.Tag, f.Type),
                  !.enumMap = IF DOMAIN enumMap # {} THEN MapPut(@, f.Tag, enumMap)
                              ELSE @]

RECURSIVE parseFields(_, _)
parseFields(fields, d) ==
    IF fields = << >> THEN d
    ELSE parseFields(Tail(fields), parseField(Head(fields), d))

\* resolveTagByName ranges over a Go map, whose iteration order is not
\* specified: the set of the values it can return
resolveTagByName(name, tagToName) ==
    LET hits == {tag \in DOMAIN tagToName : tagToName[tag] = name}
    IN  IF hits = {} THEN {-1} ELSE hits

\* all the sequences that draw their i-th element from sets[i]
RECURSIVE SeqProduct(_)
SeqProduct(sets) ==
    IF sets = << >> THEN {<< >>}
    ELSE {<<x>> \o rest : x \in Head(sets), rest \in SeqProduct(Tail(sets))}

\* the results resolveTagByName can give for the field references of msg
ResolveChoices(msg, d) ==
    SeqProduct([i \in 1..Len(msg.Fields) |->
                   resolveTagByName(msg.Fields[i].Name, d.tagToName)])

\* extractMessageFields, given the tag each reference resolved to
RECURSIVE extractMessageFields(_, _)
extractMessageFields(refs, tags) ==
    IF refs = << >> THEN [fieldOrder |-> << >>, required |-> << >>]
    ELSE LET rest == extractMessageFields(Tail(refs), Tail(tags))
             tag == Head(tags)
         IN  IF tag = -1 THEN rest
             ELSE [fieldOrder |-> <<tag>> \o rest.fieldOrder,
                   required |-> IF Head(refs).Required = "Y"
                                THEN <<tag>> \o rest.required
                                ELSE rest.required]

\* the message-type tag
msgTypeTag == 35

addMsgTypeEnumDescription(tag, msgType, name, d) ==
    LET old == IF tag \in DOMAIN d.enumMap THEN d.enumMap[tag] ELSE EmptyMap
    IN  [d EXCEPT !.enumMap = MapPut(@, tag, MapPut(old, msgType, name))]

\* parseMessages; picks[i] are the tags the references of message i resolved to
RECURSIVE parseMessages(_, _, _)
parseMessages(messages, picks, d) ==
    IF messages = << >> THEN d
    ELSE LET msg == Head(messages)
             ex == extractMessageFields(msg.Fields, Head(picks))
             def == [Name |-> msg.Name, MsgType |-> msg.MsgType,
                     FieldOrder |-> ex.fieldOrder, Required |-> ex.required]
             d1 == [d EXCEPT !.Messages = MapPut(@, msg.MsgType, def)]
         IN  parseMessages(Tail(messages), Tail(picks),
                           addMsgTypeEnumDescription(msgTypeTag, msg.MsgType, msg.Name, d1))

\* for _, tag := range group.Tags { d.groupOwners[tag] = group.NumInGroup }
RECURSIVE PutOwners(_, _, _)
PutOwners(owners, tags, num) ==
    IF tags = << >> THEN owners
    ELSE PutOwners(MapPut(owners, Head(tags), num), Tail(tags), num)

RECURSIVE parseGroups(_, _)
parseGroups(groups, d) ==
    IF groups = << >> THEN d
    ELSE LET g == Head(groups)
         IN  parseGroups(Tail(groups),
                 [d EXCEPT !.groupCounts = MapPut(@, g.NumInGroup, TRUE),
                           !.groupOwners = PutOwners(@, g.Tags, g.NumInGroup),
                           !.groupDefs = MapPut(@, g.NumInGroup,
                               [NumInGroupTag |-> g.NumInGroup, FieldOrder |-> g.Tags])])

\* the choices of resolveTagByName's results that one parse of xml can make
ParsePicks(xml) ==
    IF xml.malformed THEN {<< >>}
    ELSE LET d == parseFields(xml.Fields, EmptyLookup)
         IN  SeqProduct([i \in 1..Len(xml.Messages) |->
                            ResolveChoices(xml.Messages[i], d)])

\* parseDictionary: (lookup, error), under one choice of resolveTagByName's results
parseDictionary(xml, picks) ==
    IF xml.malformed THEN [err |-> TRUE, d |-> EmptyLookup]
    ELSE [err |-> FALSE,
          d |-> parseGroups(xml.Groups,
                    parseMessages(xml.Messages, picks,
                        parseFields(xml.Fields, EmptyLookup)))]

\* getTagValue: the value of the first field of msg whose key is tag
RECURSIVE getTagValueIn(_, _)
getTagValueIn(parts, tag) ==
    IF parts = << >> THEN [val |-> "", ok |-> FALSE]
    ELSE LET f == Head(parts)
             kv == StringsSplitN2(f, "=")
         IN  IF f # "" /\ Len(kv) = 2 /\ kv[1] = tag
             THEN [val |-> kv[2], ok |-> TRUE]
             ELSE getTagValueIn(Tail(parts), tag)

getTagValue(msg, tag) == getTagValueIn(StringsSplit(msg, SOH), tag)

\* detectSchemaKey that strips the dots of FIXT.1.1 like any begin-string
detectSchemaKeyClassicOnly(msg) ==
    LET begin == getTagValue(msg, "8")
    IN  IF ~begin.ok THEN "FIX44" ELSE StringsRemoveAll(begin.val, ".")

\* detectSchemaKey: the dictionary key of a message
detectSchemaKey(msg) ==
    LET begin == getTagValue(msg, "8")
        appl == getTagValue(msg, "1128").val
    IN  IF ~begin.ok THEN "FIX44"
        ELSE IF begin.val = "FIXT.1.1" THEN
            CASE appl = "0" -> "FIX27"
              [] appl = "1" -> "FIX30"
              [] appl = "2" -> "FIX40"
              [] appl = "3" -> "FIX41"
              [] appl = "4" -> "FIX42"
              [] appl = "5" -> "FIX43"
              [] appl = "6" -> "FIX44"
              [] appl = "7" -> "FIX50"
              [] appl = "8" -> "FIX50SP1"
              [] appl = "9" -> "FIX50SP2"
              [] OTHER -> "FIX50"
        ELSE StringsRemoveAll(begin.val, ".")

\* the merge of one enum map that lets src overwrite the codes dst has
mergeEnumOverwrites(enumDst, enumSrc) == enumSrc @@ enumDst

\* for v, desc := range enumSrc { if _, ok := dst[v]; !ok { dst[v] = desc } }
mergeEnum(enumDst, enumSrc) == enumDst @@ enumSrc

\* mergeLookups on two non-nil lookups: dst afterwards (src is only read)
mergeLookupsInto(dst, src) ==
    [dst EXCEPT
        !.tagToName = @ @@ src.tagToName,
        !.enumMap = [tag \in DOMAIN @ \cup DOMAIN src.enumMap |->
                        IF tag \notin DOMAIN src.enumMap THEN @[tag]
                        ELSE mergeEnum(IF tag \in DOMAIN @ THEN @[tag] ELSE EmptyMap,
                                       src.enumMap[tag])]]

\* ------------------------------------------------------------------------
\* fixtaglookup.go: the accessors
\* ------------------------------------------------------------------------

DigitChar(n) ==
    CASE n = 0 -> "0" [] n = 1 -> "1" [] n = 2 -> "2" [] n = 3 -> "3"
      [] n = 4 -> "4" [] n = 5 -> "5" [] n = 6 -> "6" [] n = 7 -> "7"
      [] n = 8 -> "8" [] n = 9 -> "9"

RECURSIVE NatString(_)
NatString(n) ==
    IF n < 10 THEN DigitChar(n) ELSE NatString(n \div 10) \o DigitChar(n % 10)

\* strconv.Itoa, and fmt's %d
Itoa(n) == IF n < 0 THEN "-" \o NatString(0 - n) ELSE NatString(n)

\* GetFieldName without the fallback to the tag's number
GetFieldNameNoFallback(d, tag) ==
    IF tag \in DOMAIN d.tagToName THEN d.tagToName[tag] ELSE ""

GetFieldName(d, tag) ==
    IF tag \in DOMAIN d.tagToName THEN d.tagToName[tag] ELSE Itoa(tag)

\* GetEnumDescription that answers an unknown value with the value itself
GetEnumDescriptionEchoes(d, tag, val) ==
    IF tag \in DOMAIN d.enumMap /\ val \in DOMAIN d.enumMap[tag]
    THEN d.enumMap[tag][val]
    ELSE val

GetEnumDescription(d, tag, val) ==
    IF tag \in DOMAIN d.enumMap /\ val \in DOMAIN d.enumMap[tag]
    THEN d.enumMap[tag][val]
    ELSE ""

\* a missing key reads as the zero value
GetFieldType(d, tag) ==
    IF tag \in DOMAIN d.fieldTypes THEN d.fieldTypes[tag] ELSE ""

\* ------------------------------------------------------------------------
\* display.go: the validator
\* ------------------------------------------------------------------------

UpperOf(c) ==
    CASE c = "a" -> "A" [] c = "b" -> "B" [] c = "c" -> "C" [] c = "d" -> "D"
      [] c = "e" -> "E" [] c = "f" -> "F" [] c = "g" -> "G" [] c = "h" -> "H"
      [] c = "i" -> "I" [] c = "j" -> "J" [] c = "k" -> "K" [] c = "l" -> "L"
      [] c = "m" -> "M" [] c = "n" -> "N" [] c = "o" -> "O" [] c = "p" -> "P"
      [] c = "q" -> "Q" [] c = "r" -> "R" [] c = "s" -> "S" [] c = "t" -> "T"
      [] c = "u" -> "U" [] c = "v" -> "V" [] c = "w" -> "W" [] c = "x" -> "X"
      [] c = "y" -> "Y" [] c = "z" -> "Z" [] OTHER -> c

\* strings.ToUpper
RECURSIVE StringsToUpper(_)
StringsToUpper(s) ==
    IF s = "" THEN ""
    ELSE UpperOf(CharAt(s, 1)) \o StringsToUpper(SubSeq(s, 2, Len(s)))

AllDigits(s) == \A i \in 1..Len(s) : CharAt(s, i) \in Digits

\* strconv.ParseFloat(val, 64) succeeds: decimal notation, an optional sign,
\* digits with at most one point and an optional exponent, or inf/infinity/nan
IsFloat(val) ==
    LET signed == Len(val) > 0 /\ CharAt(val, 1) \in {"+", "-"}
        body == IF signed THEN SubSeq(val, 2, Len(val)) ELSE val
        up == StringsToUpper(body)
        e == StringsIndex(up, "E")
        mant == IF e = -1 THEN body ELSE SubSeq(body, 1, e)
        expo == IF e = -1 THEN "" ELSE SubSeq(body, e + 2, Len(body))
        exps == IF Len(expo) > 0 /\ CharAt(expo, 1) \in {"+", "-"}
                THEN SubSeq(expo, 2, Len(expo)) ELSE expo
        dot == StringsIndex(mant, ".")
        ip == IF dot = -1 THEN mant ELSE SubSeq(mant, 1, dot)
        fp == IF dot = -1 THEN "" ELSE SubSeq(mant, dot + 2, Len(mant))
    IN  \/ up \in {"INF", "INFINITY"}
        \/ StringsToUpper(val) = "NAN"
        \/ /\ AllDigits(ip) /\ AllDigits(fp) /\ Len(ip) + Len(fp) > 0
           /\ (e # -1 => (Len(exps) > 0 /\ AllDigits(exps)))

\* the number at s[from..to] when those are digits, else -1
NumAt(s, from, to) ==
    IF to <= Len(s) /\ AllDigits(SubSeq(s, from, to))
    THEN DigitsValue(SubSeq(s, from, to)) ELSE -1

DaysIn(y, m) ==
    IF m \in {4, 6, 9, 11} THEN 30
    ELSE IF m # 2 THEN 31
    ELSE IF y % 4 = 0 /\ (y % 100 # 0 \/ y % 400 = 0) THEN 29 ELSE 28

\* time.Parse("20060102", s) succeeds
IsDate(s) ==
    LET y == NumAt(s, 1, 4)
        m == NumAt(s, 5, 6)
        dd == NumAt(s, 7, 8)
    IN  Len(s) = 8 /\ y >= 0 /\ m \in 1..12 /\ dd >= 1 /\ dd <= DaysIn(y, m)

\* time.Parse("15:04", s) succeeds
IsHourMinute(s) ==
    Len(s) = 5 /\ NumAt(s, 1, 2) \in 0..23 /\ CharAt(s, 3) = ":" /\ NumAt(s, 4, 5) \in 0..59

\* time.Parse("15:04:05", s) succeeds; a fractional second after the seconds
\* is accepted by time.Parse even when the layout has none
IsHourMinuteSecond(s) ==
    /\ Len(s) >= 8 /\ IsHourMinute(SubSeq(s, 1, 5)) /\ CharAt(s, 6) = ":"
    /\ NumAt(s, 7, 8) \in 0..59
    /\ Len(s) > 8 => (CharAt(s, 9) \in {".", ","} /\ Len(s) > 9
                       /\ AllDigits(SubSeq(s, 10, Len(s))))

\* time.Parse("15:04:05.000", s) succeeds: exactly three fractional digits
IsHourMinuteSecondMilli(s) ==
    Len(s) = 12 /\ IsHourMinuteSecond(s)

IsTimeOnly(s) == IsHourMinute(s) \/ IsHourMinuteSecond(s) \/ IsHourMinuteSecondMilli(s)

IsTimestamp(s) ==
    /\ Len(s) >= 17 /\ IsDate(SubSeq(s, 1, 8)) /\ CharAt(s, 9) = "-"
    /\ IsHourMinuteSecond(SubSeq(s, 10, Len(s)))

\* ^\d{6}([0-9]{2}|(-[0-9]{1,2})|(-?w[1-5]))?$
IsMonthYear(s) ==
    LET rest == SubSeq(s, 7, Len(s))
        n == Len(rest)
    IN  /\ Len(s) >= 6 /\ AllDigits(SubSeq(s, 1, 6))
        /\ \/ n = 0
           \/ n = 2 /\ AllDigits(rest)
           \/ n \in {2, 3} /\ CharAt(rest, 1) = "-" /\ AllDigits(SubSeq(rest, 2, n))
           \/ n = 2 /\ CharAt(rest, 1) = "w" /\ CharAt(rest, 2) \in {"1", "2", "3", "4", "5"}
           \/ n = 3 /\ SubSeq(rest, 1, 2) = "-w"
                    /\ CharAt(rest, 3) \in {"1", "2", "3", "4", "5"}

\* IsValidType that rejects every value of a type it does not know
IsValidTypeStrictDefault(val, typ) ==
    LET t == StringsToUpper(typ)
    IN  CASE t \in {"INT", "LENGTH", "NUMINGROUP", "SEQNUM", "DAYOFMONTH"} -> ~Atoi(val).err
          [] t \in {"FLOAT", "QTY", "PRICE", "PRICEOFFSET", "AMT", "PERCENTAGE"} -> IsFloat(val)
          [] t = "BOOLEAN" -> val = "Y" \/ val = "N"
          [] t = "CHAR" -> Len(val) = 1
          [] t \in {"STRING", "DATA", "CURRENCY", "EXCHANGE", "COUNTRY",
                    "MULTIPLEVALUESTRING", "MULTIPLESTRINGVALUE"} -> TRUE
          [] t = "UTCTIMESTAMP" -> IsTimestamp(val)
          [] t = "UTCDATEONLY" -> IsDate(val)
          [] t = "UTCTIMEONLY" -> IsTimeOnly(val)
          [] t = "MONTHYEAR" -> IsMonthYear(val)
          [] OTHER -> FALSE

IsValidType(val, typ) ==
    LET t == StringsToUpper(typ)
    IN  CASE t \in {"INT", "LENGTH", "NUMINGROUP", "SEQNUM", "DAYOFMONTH"} -> ~Atoi(val).err
          [] t \in {"FLOAT", "QTY", "PRICE", "PRICEOFFSET", "AMT", "PERCENTAGE"} -> IsFloat(val)
          [] t = "BOOLEAN" -> val = "Y" \/ val = "N"
          [] t = "CHAR" -> Len(val) = 1
          [] t \in {"STRING", "DATA", "CURRENCY", "EXCHANGE", "COUNTRY",
                    "MULTIPLEVALUESTRING", "MULTIPLESTRINGVALUE"} -> TRUE
          [] t = "UTCTIMESTAMP" -> IsTimestamp(val)
          [] t = "UTCDATEONLY" -> IsDate(val)
          [] t = "UTCTIMEONLY" -> IsTimeOnly(val)
          [] t = "MONTHYEAR" -> IsMonthYear(val)
          [] OTHER -> TRUE

\* buildFieldMap: tag -> last value, and the set of the tags seen
RECURSIVE buildFieldMapFrom(_, _)
buildFieldMapFrom(fields, fieldMap) ==
    IF fields = << >> THEN fieldMap
    ELSE buildFieldMapFrom(Tail(fields), MapPut(fieldMap, Head(fields).Tag, Head(fields).Value))

buildFieldMap(fields) ==
    LET fieldMap == buildFieldMapFrom(fields, EmptyMap)
    IN  [fieldMap |-> fieldMap, seenTags |-> DOMAIN fieldMap]

\* validateMsgType: (findings, found, the MessageDef)
validateMsgType(fieldMap, dict) ==
    IF 35 \notin DOMAIN fieldMap
    THEN [errors |-> <<"Missing required tag 35 (MsgType)">>, found |-> FALSE]
    ELSE IF fieldMap[35] \notin DOMAIN dict.Messages
    THEN [errors |-> <<"Unknown MsgType: " \o fieldMap[35]>>, found |-> FALSE]
    ELSE [errors |-> << >>, found |-> TRUE]

\* validateRequiredFields that names the missing field by its number
RECURSIVE validateRequiredFieldsUnnamed(_, _, _)
validateRequiredFieldsUnnamed(required, seenTags, dict) ==
    IF required = << >> THEN << >>
    ELSE LET tag == Head(required)
         IN  (IF tag \notin seenTags
              THEN <<"Missing required tag " \o Itoa(tag) \o " (" \o Itoa(tag) \o ")">>
              ELSE << >>)
             \o validateRequiredFieldsUnnamed(Tail(required), seenTags, dict)

RECURSIVE validateRequiredFields(_, _, _)
validateRequiredFields(required, seenTags, dict) ==
    IF required = << >> THEN << >>
    ELSE LET tag == Head(required)
         IN  (IF tag \notin seenTags
              THEN <<"Missing required tag " \o Itoa(tag) \o " ("
                        \o GetFieldName(dict, tag) \o ")">>
              ELSE << >>)
             \o validateRequiredFields(Tail(required), seenTags, dict)

\* the findings for one field when the type is looked at only if the enum
\* check found nothing
validateFieldEnumOrType(fv, dict) ==
    LET tag == fv.Tag
        val == fv.Value
        typ == GetFieldType(dict, tag)
    IN  IF tag \in DOMAIN dict.enumMap /\ val \notin DOMAIN dict.enumMap[tag]
        THEN <<"Invalid enum value '" \o val \o "' for tag " \o Itoa(tag)>>
        ELSE IF typ # "" /\ ~IsValidType(val, typ)
        THEN <<"Invalid type for tag " \o Itoa(tag) \o ": expected " \o typ
                  \o ", got '" \o val \o "'">>
        ELSE << >>

\* the findings of validateFieldEnumsAndTypes for one field
validateFieldEnumAndType(fv, dict) ==
    LET tag == fv.Tag
        val == fv.Value
        typ == GetFieldType(dict, tag)
    IN  (IF tag \in DOMAIN dict.enumMap /\ val \notin DOMAIN dict.enumMap[tag]
         THEN <<"Invalid enum value '" \o val \o "' for tag " \o Itoa(tag)>>
         ELSE << >>)
        \o
        (IF typ # "" /\ ~IsValidType(val, typ)
         THEN <<"Invalid type for tag " \o Itoa(tag) \o ": expected " \o typ
                   \o ", got '" \o val \o "'">>
         ELSE << >>)

RECURSIVE validateFieldEnumsAndTypes(_, _)
validateFieldEnumsAndTypes(fields, dict) ==
    IF fields = << >> THEN << >>
    ELSE validateFieldEnumAndType(Head(fields), dict)
         \o validateFieldEnumsAndTypes(Tail(fields), dict)

\* orderIndex[tag] = i for i, tag := range expectedOrder (0-based; the last
\* occurrence of a tag wins)
orderIndex(expectedOrder) ==
    [tag \in Range(expectedOrder) |->
        (CHOOSE i \in 1..Len(expectedOrder) :
            /\ expectedOrder[i] = tag
            /\ \A j \in 1..Len(expectedOrder) : expectedOrder[j] = tag => j <= i) - 1]

\* lastIdx kept as the highest index seen so far
nextLastIdxHighest(lastIdx, idx) == IF idx > lastIdx THEN idx ELSE lastIdx

\* the index validateFieldOrdering keeps after a field of index idx, when it
\* held lastIdx before
nextLastIdx(lastIdx, idx) == idx

\* the loop of validateFieldOrdering from the given lastIdx
RECURSIVE validateFieldOrderingFrom(_, _, _)
validateFieldOrderingFrom(fields, index, lastIdx) ==
    IF fields = << >> THEN << >>
    ELSE LET fv == Head(fields)
         IN  IF fv.Tag \in DOMAIN index
             THEN (IF index[fv.Tag] < lastIdx
                   THEN <<"Tag " \o Itoa(fv.Tag) \o " out of order">>
                   ELSE << >>)
                  \o validateFieldOrderingFrom(Tail(fields), index,
                                               nextLastIdx(lastIdx, index[fv.Tag]))
             ELSE validateFieldOrderingFrom(Tail(fields), index, lastIdx)

validateFieldOrdering(fields, expectedOrder) ==
    validateFieldOrderingFrom(fields, orderIndex(expectedOrder), -1)

\* the ASCII characters from the space (32) to the underscore (95), and from
\* "a" (97) to the tilde (126)
AsciiFromSpace == " !\"#$%&'()*+,-./0123456789:;<=>?@ABCDEFGHIJKLMNOPQRSTUVWXYZ[\\]^_"

AsciiFromLowerA == "abcdefghijklmnopqrstuvwxyz{|}~"

\* the byte value of a character of a message; "|" stands for SOH, byte 1
ByteOf(c) ==
    IF c = SOH THEN 1
    ELSE IF StringsContains(AsciiFromSpace, c) THEN 32 + StringsIndex(AsciiFromSpace, c)
    ELSE 97 + StringsIndex(AsciiFromLowerA, c)

RECURSIVE SumBytes(_)
SumBytes(s) ==
    IF s = "" THEN 0 ELSE ByteOf(CharAt(s, 1)) + SumBytes(SubSeq(s, 2, Len(s)))

CalculateChecksum(msg) ==
    LET cutoff == StringsIndex(msg, SOH \o "10=")
    IN  IF cutoff = -1 THEN -1
        ELSE SumBytes(SubSeq(msg, 1, cutoff + 1)) % 256

\* fmt.Sprintf("%03d", n): zero-padded to three characters, the sign included
Sprintf03d(n) ==
    LET digits == NatString(IF n < 0 THEN 0 - n ELSE n)
        width == IF n < 0 THEN 2 ELSE 3
        pad == IF Len(digits) >= width THEN ""
               ELSE IF Len(digits) = width - 1 THEN "0"
               ELSE IF Len(digits) = width - 2 THEN "00"
               ELSE "000"
    IN  (IF n < 0 THEN "-" ELSE "") \o pad \o digits

validateChecksumField(msg, fieldMap) ==
    LET expected == Sprintf03d(CalculateChecksum(msg))
    IN  IF 10 \notin DOMAIN fieldMap THEN <<"Missing required checksum tag 10">>
        ELSE IF fieldMap[10] # expected
        THEN <<"Checksum mismatch: got " \o fieldMap[10] \o ", expected " \o expected>>
        ELSE << >>

\* the four checks with the ordering check run ahead of the others
validateBodyOrderingFirst(msg, fields, fm, msgDef, dict) ==
    validateFieldOrdering(fields, msgDef.FieldOrder)
    \o validateRequiredFields(msgDef.Required, fm.seenTags, dict)
    \o validateFieldEnumsAndTypes(fields, dict)
    \o validateChecksumField(msg, fm.fieldMap)

\* the four checks that follow a resolved message type, in the order
\* ValidateFixMessage appends them
validateBody(msg, fields, fm, msgDef, dict) ==
    validateRequiredFields(msgDef.Required, fm.seenTags, dict)
    \o validateFieldEnumsAndTypes(fields, dict)
    \o validateFieldOrdering(fields, msgDef.FieldOrder)
    \o validateChecksumField(msg, fm.fieldMap)

\* ValidateFixMessage that goes on to the checksum without a message type
ValidateFixMessageNoAbort(msg, dict) ==
    LET fields == ParseFix(msg).elems
        fm == buildFieldMap(fields)
        mt == validateMsgType(fm.fieldMap, dict)
    IN  IF ~mt.found THEN mt.errors \o validateChecksumField(msg, fm.fieldMap)
        ELSE mt.errors \o validateBody(msg, fields, fm, dict.Messages[fm.fieldMap[35]], dict)

ValidateFixMessage(msg, dict) ==
    LET fields == ParseFix(msg).elems
        fm == buildFieldMap(fields)
        mt == validateMsgType(fm.fieldMap, dict)
    IN  IF ~mt.found THEN mt.errors
        ELSE mt.errors \o validateBody(msg, fields, fm, dict.Messages[fm.fieldMap[35]], dict)

\* ------------------------------------------------------------------------
\* fixtaglookup.go: the dictionary cache
\* ------------------------------------------------------------------------

\* schema key -> embedded-XML ID
schemaToXMLID ==
    [k \in {"FIX27", "FIX30", "FIX40", "FIX41", "FIX42", "FIX43", "FIX44",
            "FIX50", "FIX50SP1", "FIX50SP2", "FIXT11"} |->
        CASE k \in {"FIX27", "FIX30", "FIX40"} -> "40"
          [] k = "FIX41" -> "41"
          [] k = "FIX42" -> "42"
          [] k = "FIX43" -> "43"
          [] k = "FIX44" -> "44"
          [] k = "FIX50" -> "50"
          [] k = "FIX50SP1" -> "50SP1"
          [] k = "FIX50SP2" -> "50SP2"
          [] k = "FIXT11" -> "T11"]

\* the keys whose dictionary relies on the FIXT11 session dictionary
NeedsT11(key) == key = "FIX50" \/ key = "FIX50SP1" \/ key = "FIX50SP2"

FieldElem(name, tag, type, values) ==
    [Name |-> name, Tag |-> tag, Type |-> type, Values |-> values, ValuesWrapper |-> << >>]

EnumElem(enum, description) == [Enum |-> enum, Description |-> description]

\* the dictionary embedded for an application version: BeginString with the
\* version's own begin-string as its one value, MsgType, and a Heartbeat
ApplicationXML(begin, name) ==
    rawFix(<<FieldElem("BeginString", 8, "STRING", <<EnumElem(begin, name)>>),
             FieldElem("MsgType", 35, "STRING", << >>)>>,
           <<[Name |-> "Heartbeat", MsgType |-> "0",
              Fields |-> <<[Name |-> "BeginString", Required |-> "Y"]>>]>>,
           << >>)

\* the dictionary embedded for a FIX 5.0 version: it leaves the session
\* fields to FIXT11 and declares ApplVerID with its own code only
Fix50XML(code, name) ==
    rawFix(<<FieldElem("MsgType", 35, "STRING", << >>),
             FieldElem("ApplVerID", 1128, "STRING", <<EnumElem(code, name)>>)>>,
           <<[Name |-> "NewOrderSingle", MsgType |-> "D",
              Fields |-> <<[Name |-> "ApplVerID", Required |-> "N"]>>]>>,
           << >>)

\* the session dictionary: BeginString and every ApplVerID code
SessionXML ==
    rawFix(<<FieldElem("BeginString", 8, "STRING", <<EnumElem("FIXT.1.1", "FIXT11")>>),
             FieldElem("MsgType", 35, "STRING", << >>),
             FieldElem("ApplVerID", 1128, "STRING",
                       <<EnumElem("7", "T11-FIX50"), EnumElem("9", "T11-FIX50SP2")>>)>>,
           <<[Name |-> "Logon", MsgType |-> "A",
              Fields |-> <<[Name |-> "BeginString", Required |-> "Y"]>>]>>,
           << >>)

\* the dictionaries compiled into the program, by XML ID
EmbeddedXML(xmlID) ==
    CASE xmlID = "40" -> ApplicationXML("FIX.4.0", "FIX40")
      [] xmlID = "41" -> ApplicationXML("FIX.4.1", "FIX41")
      [] xmlID = "42" -> ApplicationXML("FIX.4.2", "FIX42")
      [] xmlID = "43" -> ApplicationXML("FIX.4.3", "FIX43")
      [] xmlID = "50" -> Fix50XML("7", "FIX50")
      [] xmlID = "50SP1" -> Fix50XML("8", "FIX50SP1")
      [] xmlID = "50SP2" -> Fix50XML("9", "FIX50SP2")
      [] xmlID = "T11" -> SessionXML
      [] OTHER -> ApplicationXML("FIX.4.4", "FIX44")

\* the goroutines that decode messages
Goroutines == {"g1", "g2"}

NoOne == "none"

\* the top-level calls the model makes in all
MaxCalls == 3

\* the keys getDictionary is called with from outside
CallKeys == {"FIX44", "FIXT11"}

\* the messages LoadDictionary is called with
CallMsgs == {"8=UNKNOWN.0|", "8=FIXT.1.1|1128=9|"}

\* the XML IDs for which the loader hook may hand back malformed text (for
\* one of them at most in a run)
HookIDs == {"44", "T11"}

VARIABLES
    dicts,       \* the cache: schema key -> instance (pointer)
    heap,        \* the FixTagLookup instances allocated so far, by pointer
    readers,     \* dictMux: the goroutines holding the read lock
    pending,     \* dictMux: the goroutine whose Lock() waits for the readers
    writer,      \* dictMux: the goroutine holding the write lock
    stack,       \* per goroutine, its call stack, innermost frame last
    result,      \* per goroutine, its last finished top-level call
    calls,       \* the top-level calls started so far
    badXML,      \* the XML IDs for which chooseEmbeddedXML yields malformed text
    pure         \* the call of a function checked on its own, and its outcome

vars == <<dicts, heap, readers, pending, writer, stack, result, calls, badXML, pure>>

\* the variables of the dictionary cache, apart from the heap
cacheVars == <<dicts, readers, pending, writer, stack, result, calls, badXML>>

\* no function is being checked on its own
NoCall == [op |-> ""]

\* the loader hook: var chooseEmbeddedXML = fix.ChooseEmbeddedXML, replaceable
chooseEmbeddedXML(xmlID) ==
    IF xmlID \in badXML THEN MalformedXML ELSE EmbeddedXML(xmlID)

NoResult == [fn |-> "", val |-> Nil]

Frame(fn, pc, arg, key) ==
    [fn |-> fn, pc |-> pc, arg |-> arg, key |-> key,
     parsed |-> Nil, ret |-> Nil, settled |-> FALSE]

Top(g) == stack[g][Len(stack[g])]

At(g, fn, pc) == stack[g] # << >> /\ Top(g).fn = fn /\ Top(g).pc = pc

\* the getDictionary frames, of any goroutine, for key
FramesFor(key) ==
    {f \in UNION {Range(stack[g]) : g \in Goroutines} :
        f.fn = "getDictionary" /\ f.key = key}

\* no call for key is between its failed cache read and its cache write
Quiescent(key) ==
    \A f \in FramesFor(key) :
        f.pc \in {"rlock", "read", "merge"}

Init ==
    /\ dicts = EmptyMap
    /\ heap = << >>
    /\ readers = {}
    /\ pending = NoOne
    /\ writer = NoOne
    /\ stack = [g \in Goroutines |-> << >>]
    /\ result = [g \in Goroutines |-> NoResult]
    /\ calls = 0
    /\ badXML \in {{}} \cup {{id} : id \in HookIDs}
    /\ pure = NoCall

\* replace the innermost frame of g
SetTop(g, f) == [stack EXCEPT ![g] = SubSeq(@, 1, Len(@) - 1) \o <<f>>]

\* the innermost frame of g returns val: to its caller, or as the result
Return(g, val) ==
    LET n == Len(stack[g])
    IN  IF n = 1
        THEN /\ stack' = [stack EXCEPT ![g] = << >>]
             /\ result' = [result EXCEPT ![g] =
                              [fn |-> Top(g).fn, val |-> val]]
        ELSE /\ stack' = [stack EXCEPT ![g] =
                             SubSeq(@, 1, n - 2) \o <<[@[n - 1] EXCEPT !.ret = val]>>]
             /\ UNCHANGED result

\* a new getDictionary(key) frame
NewGetDictionary(key) ==
    [Frame("getDictionary", "rlock", key, key) EXCEPT
        !.settled = key \in DOMAIN dicts /\ Quiescent(key)]

\* the goroutines run the same code: the first call of a run is g1's
FirstCaller(g) == calls > 0 \/ g = "g1"

\* a goroutine calls getDictionary(key)
CallGetDictionary(g, key) ==
    /\ stack[g] = << >>
    /\ FirstCaller(g)
    /\ calls < MaxCalls
    /\ calls' = calls + 1
    /\ stack' = [stack EXCEPT ![g] = <<NewGetDictionary(key)>>]
    /\ UNCHANGED <<dicts, heap, readers, pending, writer, result, badXML, pure>>

\* a goroutine calls LoadDictionary(msg): key := detectSchemaKey(msg), then
\* the first getDictionary(key)
CallLoadDictionary(g, msg) ==
    /\ stack[g] = << >>
    /\ FirstCaller(g)
    /\ calls < MaxCalls
    /\ calls' = calls + 1
    /\ stack' = [stack EXCEPT ![g] =
                    <<Frame("LoadDictionary", "first", msg, detectSchemaKey(msg)),
                      NewGetDictionary(detectSchemaKey(msg))>>]
    /\ UNCHANGED <<dicts, heap, readers, pending, writer, result, badXML, pure>>

\* RLock as a plain mutex would grant it: to one holder at a time
RLockExclusive(g) == writer = NoOne /\ pending = NoOne /\ readers = {}

\* dictMux.RLock(): granted unless a writer holds the lock or waits for it
RLockGranted(g) == writer = NoOne /\ pending = NoOne

GetDictRLock(g) ==
    /\ At(g, "getDictionary", "rlock")
    /\ RLockGranted(g)
    /\ readers' = readers \cup {g}
    /\ stack' = SetTop(g, [Top(g) EXCEPT !.pc = "read"])
    /\ UNCHANGED <<dicts, heap, pending, writer, result, calls, badXML, pure>>

\* getDictionary without its fast path: a key found in the cache is loaded
\* again all the same
GetDictReadNoFastPath(g) ==
    /\ At(g, "getDictionary", "read")
    /\ readers' = readers \ {g}
    /\ stack' = SetTop(g, [Top(g) EXCEPT !.pc = "parse"])
    /\ UNCHANGED <<dicts, heap, pending, writer, result, calls, badXML, pure>>

\* d, ok := dicts[key], then dictMux.RUnlock() on both branches; a hit
\* returns d
GetDictRead(g) ==
    /\ At(g, "getDictionary", "read")
    /\ readers' = readers \ {g}
    /\ IF Top(g).key \in DOMAIN dicts
       THEN Return(g, dicts[Top(g).key])
       ELSE /\ stack' = SetTop(g, [Top(g) EXCEPT !.pc = "parse"])
            /\ UNCHANGED result
    /\ UNCHANGED <<dicts, heap, pending, writer, calls, badXML, pure>>

\* what getDictionary parses on a miss, with no lock held: nothing for a key
\* without an XML ID, else the embedded XML of the key
\*   xmlID, ok := schemaToXMLID[key]; if !ok { return nil }
\*   parsed, err := parseDictionary(chooseEmbeddedXML(xmlID))
\*   if err != nil { return nil }
ParseResults(key) ==
    IF key \notin DOMAIN schemaToXMLID THEN {[err |-> TRUE, d |-> EmptyLookup]}
    ELSE LET xml == chooseEmbeddedXML(schemaToXMLID[key])
         IN  {parseDictionary(xml, picks) : picks \in ParsePicks(xml)}

\* getDictionary remembering a failed load: the key is stored with nil
GetDictParseCachesNil(g) ==
    /\ At(g, "getDictionary", "parse")
    /\ \E r \in ParseResults(Top(g).key) :
           IF r.err
           THEN /\ Return(g, Nil)
                /\ dicts' = MapPut(dicts, Top(g).key, Nil)
                /\ UNCHANGED heap
           ELSE /\ heap' = Append(heap, r.d)
                /\ stack' = SetTop(g, [Top(g) EXCEPT
                                          !.pc = "lock",
                                          !.parsed = Len(heap) + 1])
                /\ UNCHANGED <<dicts, result>>
    /\ UNCHANGED <<readers, pending, writer, calls, badXML, pure>>

GetDictParse(g) ==
    /\ At(g, "getDictionary", "parse")
    /\ \E r \in ParseResults(Top(g).key) :
           IF r.err
           THEN /\ Return(g, Nil)
                /\ UNCHANGED <<dicts, heap>>
           ELSE /\ heap' = Append(heap, r.d)
                /\ stack' = SetTop(g, [Top(g) EXCEPT
                                          !.pc = "lock",
                                          !.parsed = Len(heap) + 1])
                /\ UNCHANGED <<dicts, result>>
    /\ UNCHANGED <<readers, pending, writer, calls, badXML, pure>>

\* dictMux.Lock(), first half: the writer closes the lock to new readers
GetDictLock(g) ==
    /\ At(g, "getDictionary", "lock")
    /\ writer = NoOne /\ pending = NoOne
    /\ pending' = g
    /\ stack' = SetTop(g, [Top(g) EXCEPT !.pc = "lockwait"])
    /\ UNCHANGED <<dicts, heap, readers, writer, result, calls, badXML, pure>>

\* dictMux.Lock(), second half: granted once the readers have left
GetDictLockAcquire(g) ==
    /\ At(g, "getDictionary", "lockwait")
    /\ readers = {}
    /\ pending' = NoOne
    /\ writer' = g
    /\ stack' = SetTop(g, [Top(g) EXCEPT !.pc = "write"])
    /\ UNCHANGED <<dicts, heap, readers, result, calls, badXML, pure>>

\* getDictionary that stores parsed and goes on without dictMux.Unlock()
GetDictWriteKeepsLock(g) ==
    /\ At(g, "getDictionary", "write")
    /\ dicts' = MapPut(dicts, Top(g).key, Top(g).parsed)
    /\ IF NeedsT11(Top(g).key)
       THEN /\ stack' = [stack EXCEPT ![g] =
                            SubSeq(@, 1, Len(@) - 1)
                            \o <<[Top(g) EXCEPT !.pc = "merge"],
                                 NewGetDictionary("FIXT11")>>]
            /\ UNCHANGED result
       ELSE Return(g, Top(g).parsed)
    /\ UNCHANGED <<heap, readers, pending, writer, calls, badXML, pure>>

\* dicts[key] = parsed, then dictMux.Unlock(); then the nested
\* getDictionary("FIXT11") for the FIX 5.0 keys, or return parsed
GetDictWrite(g) ==
    /\ At(g, "getDictionary", "write")
    /\ dicts' = MapPut(dicts, Top(g).key, Top(g).parsed)
    /\ writer' = NoOne
    /\ IF NeedsT11(Top(g).key)
       THEN /\ stack' = [stack EXCEPT ![g] =
                            SubSeq(@, 1, Len(@) - 1)
                            \o <<[Top(g) EXCEPT !.pc = "merge"],
                                 NewGetDictionary("FIXT11")>>]
            /\ UNCHANGED result
       ELSE Return(g, Top(g).parsed)
    /\ UNCHANGED <<heap, readers, pending, calls, badXML, pure>>

\* mergeLookups(dst, src) on the heap: a no-op when either pointer is nil
mergeLookups(h, dst, src) ==
    IF dst = Nil \/ src = Nil THEN h
    ELSE [h EXCEPT ![dst] = mergeLookupsInto(h[dst], h[src])]

\* getDictionary storing parsed once more after the merge, with no lock held
GetDictMergeStoresAgain(g) ==
    /\ At(g, "getDictionary", "merge")
    /\ heap' = mergeLookups(heap, Top(g).parsed, Top(g).ret)
    /\ dicts' = MapPut(dicts, Top(g).key, Top(g).parsed)
    /\ Return(g, Top(g).parsed)
    /\ UNCHANGED <<readers, pending, writer, calls, badXML, pure>>

\* if t11 := getDictionary("FIXT11"); t11 != nil { mergeLookups(parsed, t11) }
\* return parsed
GetDictMerge(g) ==
    /\ At(g, "getDictionary", "merge")
    /\ heap' = mergeLookups(heap, Top(g).parsed, Top(g).ret)
    /\ Return(g, Top(g).parsed)
    /\ UNCHANGED <<dicts, readers, pending, writer, calls, badXML, pure>>

\* LoadDictionary without its fallback: whatever the first lookup gave
LoadDictFirstNoFallback(g) ==
    /\ At(g, "LoadDictionary", "first")
    /\ Return(g, Top(g).ret)
    /\ UNCHANGED <<dicts, heap, readers, pending, writer, calls, badXML, pure>>

\* if d := getDictionary(key); d != nil { return d }
\* return getDictionary("FIX44")
LoadDictFirst(g) ==
    /\ At(g, "LoadDictionary", "first")
    /\ IF Top(g).ret # Nil
       THEN Return(g, Top(g).ret)
       ELSE /\ stack' = [stack EXCEPT ![g] =
                            SubSeq(@, 1, Len(@) - 1)
                            \o <<[Top(g) EXCEPT !.pc = "second"],
                                 NewGetDictionary("FIX44")>>]
            /\ UNCHANGED result
    /\ UNCHANGED <<dicts, heap, readers, pending, writer, calls, badXML, pure>>

LoadDictSecond(g) ==
    /\ At(g, "LoadDictionary", "second")
    /\ Return(g, Top(g).ret)
    /\ UNCHANGED <<dicts, heap, readers, pending, writer, calls, badXML, pure>>

Next ==
    \/ \E g \in Goroutines, key \in CallKeys : CallGetDictionary(g, key)
    \/ \E g \in Goroutines, msg \in CallMsgs : CallLoadDictionary(g, msg)
    \/ \E g \in Goroutines : GetDictRLock(g)
    \/ \E g \in Goroutines : GetDictRead(g)
    \/ \E g \in Goroutines : GetDictParse(g)
    \/ \E g \in Goroutines : GetDictLock(g)
    \/ \E g \in Goroutines : GetDictLockAcquire(g)
    \/ \E g \in Goroutines : GetDictWrite(g)
    \/ \E g \in Goroutines : GetDictMerge(g)
    \/ \E g \in Goroutines : LoadDictFirst(g)
    \/ \E g \in Goroutines : LoadDictSecond(g)

Spec == Init /\ [][Next]_vars

\* the steps of goroutine g inside a call it has made
GoroutineStep(g) ==
    \/ GetDictRLock(g) \/ GetDictRead(g) \/ GetDictParse(g)
    \/ GetDictLock(g) \/ GetDictLockAcquire(g) \/ GetDictWrite(g) \/ GetDictMerge(g)
    \/ LoadDictFirst(g) \/ LoadDictSecond(g)

\* the top-level calls of a run under fair scheduling
MaxFairCalls == 2

\* the steps of the cache, with MaxFairCalls calls from outside
NextFair ==
    \/ \E g \in Goroutines, key \in CallKeys :
          calls < MaxFairCalls /\ CallGetDictionary(g, key)
    \/ \E g \in Goroutines, msg \in CallMsgs :
          calls < MaxFairCalls /\ CallLoadDictionary(g, msg)
    \/ \E g \in Goroutines : GoroutineStep(g)

\* the Go scheduler runs every goroutine that can run: a goroutine inside a
\* call is not held up forever while its next step stays possible (nobody
\* is obliged to make a call)
SpecFair == Init /\ [][NextFair]_vars /\ \A g \in Goroutines : WF_vars(GoroutineStep(g))

\* ------------------------------------------------------------------------
\* properties of the dictionary cache
\* ------------------------------------------------------------------------

\* the step returns v from the innermost frame of g
ReturnsValue(g, v) ==
    IF Len(stack[g]) = 1
    THEN stack'[g] = << >> /\ result'[g].val = v
    ELSE /\ Len(stack'[g]) = Len(stack[g]) - 1
         /\ stack'[g][Len(stack'[g])].ret = v

\* the step is one of goroutine g
StepOf(g) == stack'[g] # stack[g]

\* the dictionaries a successful load of key can build
LoadedDictionaries(key) == {r.d : r \in {x \in ParseResults(key) : ~x.err}}

\* C1: once an instance is stored in the cache, none of its maps is written
\* again, whatever the key: no step changes an instance the cache holds.
C1_ReadOnlyOnceStored ==
    [][\A key \in DOMAIN dicts : heap'[dicts[key]] = heap[dicts[key]]]_vars

\* C2: once no first-time call for a cached key is between its failed read
\* and its write, the cache keeps the one instance it holds for the key, and a
\* call for the key that starts from then on returns that instance.
C2_ConvergesOnOneInstance ==
    [][/\ \A key \in DOMAIN dicts :
              Quiescent(key) =>
                  /\ key \in DOMAIN dicts'
                  /\ dicts'[key] = dicts[key]
                  /\ Quiescent(key)'
       /\ \A g \in Goroutines :
              (At(g, "getDictionary", "read") /\ Top(g).settled /\ StepOf(g)) =>
                  /\ Top(g).key \in DOMAIN dicts
                  /\ ReturnsValue(g, dicts[Top(g).key])]_vars

\* two first-time calls for FIX44 raced (each parsed an instance) and have
\* returned, and a call for FIX44 that started afterwards is at its read
C2_Witness ==
    \E g \in Goroutines :
        /\ At(g, "getDictionary", "read") /\ Len(stack[g]) = 1
        /\ Top(g).key = "FIX44" /\ Top(g).settled
        /\ \A h \in Goroutines \ {g} : stack[h] = << >>
        /\ Cardinality({i \in 1..Len(heap) : heap[i] \in LoadedDictionaries("FIX44")}) = 2

\* C3: a call that finds its key in the cache returns the stored instance,
\* parses nothing (allocates no instance) and leaves the cache as it is.
C3_CacheHitReturnsStored ==
    [][\A g \in Goroutines :
           (At(g, "getDictionary", "read") /\ Top(g).key \in DOMAIN dicts /\ StepOf(g)) =>
               /\ ReturnsValue(g, dicts[Top(g).key])
               /\ dicts' = dicts
               /\ heap' = heap]_vars

\* two calls have run to their end with one parse between them: the second
\* found FIX44 in the cache and returned the stored instance
C3_Witness ==
    /\ calls = 2 /\ Len(heap) = 1 /\ dicts = ("FIX44" :> 1)
    /\ \A g \in Goroutines : stack[g] = << >>
    /\ result["g1"] = [fn |-> "getDictionary", val |-> 1]
    /\ result["g2"] = [fn |-> "getDictionary", val |-> 1]

\* C4: the cache is read under the read lock and written under the write
\* lock only, nothing is locked while a miss parses, and a reader is let in
\* whenever no writer holds or awaits the lock, whoever else reads.
C4_LockDiscipline ==
    /\ [](\A g \in Goroutines :
             /\ At(g, "getDictionary", "read") => (g \in readers /\ writer = NoOne)
             /\ At(g, "getDictionary", "write") => (writer = g /\ readers = {})
             /\ At(g, "getDictionary", "parse") =>
                    (g \notin readers /\ writer # g /\ pending # g)
             /\ (At(g, "getDictionary", "rlock") /\ writer = NoOne /\ pending = NoOne) =>
                    ENABLED GetDictRLock(g))
    /\ [][/\ dicts' # dicts => (writer # NoOne /\ StepOf(writer))
          /\ heap' # heap => \A g \in Goroutines :
                                 StepOf(g) => (g \notin readers /\ writer # g)]_vars

\* a goroutine is about to take the read lock while the other holds it
C4_Witness ==
    /\ At("g1", "getDictionary", "rlock")
    /\ At("g2", "getDictionary", "read")
    /\ readers = {"g2"}

\* C5: with a FIX44 dictionary that parses, LoadDictionary does not return
\* nil, and what it returns after a nil first lookup is the FIX44 dictionary.
C5_LoadDictionaryNeverNil ==
    "44" \notin badXML =>
        \A g \in Goroutines :
            /\ result[g].fn = "LoadDictionary" => result[g].val # Nil
            /\ At(g, "LoadDictionary", "second") =>
                   /\ Top(g).ret # Nil
                   /\ heap[Top(g).ret] \in LoadedDictionaries("FIX44")

\* LoadDictionary got nil for a key without dictionary, fell back, and has
\* returned the FIX44 dictionary
C5_Witness ==
    \E g \in Goroutines :
        /\ result[g].fn = "LoadDictionary" /\ stack[g] = << >>
        /\ result[g].val # Nil
        /\ heap[result[g].val] \in LoadedDictionaries("FIX44")
        /\ DOMAIN dicts = {"FIX44"}

\* a load of key must fail: no XML ID, or XML that does not parse
LoadFails(key) ==
    key \notin DOMAIN schemaToXMLID \/ chooseEmbeddedXML(schemaToXMLID[key]).malformed

\* C6: parseDictionary gives an error for malformed XML; a getDictionary
\* call for a key without XML, or whose XML does not parse, returns nil and
\* leaves every entry of the cache as it is.
C6_FailedLoadLeavesCache ==
    [][/\ parseDictionary(MalformedXML, << >>).err
       /\ \A g \in Goroutines :
              (At(g, "getDictionary", "parse") /\ LoadFails(Top(g).key) /\ StepOf(g)) =>
                  /\ ReturnsValue(g, Nil)
                  /\ dicts' = dicts]_vars

\* getDictionary has returned nil both for a key without XML ID (to
\* LoadDictionary, which fell back) and for FIX44, whose XML is malformed
C6_Witness ==
    /\ "44" \in badXML
    /\ \E g \in Goroutines :
           /\ At(g, "LoadDictionary", "second")
           /\ Top(g).key \notin DOMAIN schemaToXMLID
           /\ Top(g).ret = Nil
    /\ \E g \in Goroutines : result[g] = [fn |-> "getDictionary", val |-> Nil]

\* d holds every tag name and every enum entry of the wrapper dictionary
ContainsWrapper(d, t11) ==
    /\ DOMAIN t11.tagToName \subseteq DOMAIN d.tagToName
    /\ \A tag \in DOMAIN t11.enumMap :
          /\ tag \in DOMAIN d.enumMap
          /\ DOMAIN t11.enumMap[tag] \subseteq DOMAIN d.enumMap[tag]

\* C24: when the FIXT11 dictionary loads, every dictionary getDictionary
\* returns for FIX50, FIX50SP1 or FIX50SP2, to any caller under any
\* interleaving, holds every tag name and enum entry of the FIXT11 dictionary.
C24_ReturnedWithWrapper ==
    [][\A g \in Goroutines :
          (/\ stack[g] # << >> /\ Top(g).fn = "getDictionary" /\ NeedsT11(Top(g).key)
           /\ "T11" \notin badXML
           /\ Len(stack'[g]) < Len(stack[g]))
          => \A p \in 1..Len(heap') :
                ReturnsValue(g, p) =>
                    \A t11 \in LoadedDictionaries("FIXT11") : ContainsWrapper(heap'[p], t11)]_vars

\* goroutine g holds or awaits no part of dictMux after the step
LockFreeAfter(g) == g \notin readers' /\ writer' # g /\ pending' # g

\* the getDictionary frames on the stack of g
GetDictionaryDepth(g) ==
    Cardinality({i \in 1..Len(stack[g]) : stack[g][i].fn = "getDictionary"})

\* C25: under fair scheduling every call returns; a goroutine holds no cache
\* lock when getDictionary returns, on any path; the nested getDictionary of
\* the FIX 5.0 keys is called with no lock held and nests one level at most.
C25_EveryCallReturns ==
    /\ \A g \in Goroutines : (stack[g] # << >>) ~> (stack[g] = << >>)
    /\ [][\A g \in Goroutines :
             /\ (stack[g] # << >> /\ Top(g).fn = "getDictionary"
                   /\ Len(stack'[g]) < Len(stack[g])) => LockFreeAfter(g)
             /\ (stack[g] # << >> /\ Len(stack'[g]) > Len(stack[g])) =>
                    (g \notin readers /\ pending # g /\ LockFreeAfter(g))]_vars
    /\ [](\A g \in Goroutines : GetDictionaryDepth(g) <= 2)

\* a goroutine is inside the nested load of FIXT11, holding the write lock,
\* while the other waits for the read lock
C25_Witness ==
    \E g, h \in Goroutines :
        /\ GetDictionaryDepth(g) = 2 /\ At(g, "getDictionary", "write") /\ writer = g
        /\ At(h, "getDictionary", "rlock")

\* ------------------------------------------------------------------------
\* mergeLookups on its own
\* ------------------------------------------------------------------------

\* the largest tag of the lookups handed to mergeLookups
MaxMergeTag == 2

\* the maps from a subset of keys to vals
PartialMaps(keys, vals) == UNION {[dom -> vals] : dom \in SUBSET keys}

\* the lookups handed to mergeLookups: names for the tags 1..MaxMergeTag,
\* enum codes for tag 1, and types and messages that tell dst from src
MergeLookups(type, msgType) ==
    {[EmptyLookup EXCEPT !.tagToName = names, !.enumMap = enums,
                         !.fieldTypes = (1 :> type),
                         !.groupCounts = (1 :> TRUE),
                         !.Messages = (msgType :>
                             [Name |-> type, MsgType |-> msgType,
                              FieldOrder |-> <<1>>, Required |-> << >>])] :
        names \in PartialMaps(1..MaxMergeTag, {"A", "B"}),
        enums \in PartialMaps({1}, PartialMaps({"x", "y"}, {"P", "Q"}))}

InitMerge ==
    /\ heap \in {<<dst, src>> : dst \in MergeLookups("INT", "D"),
                                src \in MergeLookups("CHAR", "S")}
    /\ pure \in {[op |-> "mergeLookups", dst |-> dst, src |-> src,
                  before |-> heap, done |-> FALSE] :
                    dst \in {Nil, 1}, src \in {Nil, 2}}
    /\ dicts = EmptyMap /\ readers = {} /\ pending = NoOne /\ writer = NoOne
    /\ stack = [g \in Goroutines |-> << >>]
    /\ result = [g \in Goroutines |-> NoResult]
    /\ calls = 0 /\ badXML = {}

\* mergeLookups(dst, src)
MergeLookupsCall ==
    /\ pure.op = "mergeLookups" /\ ~pure.done
    /\ heap' = mergeLookups(heap, pure.dst, pure.src)
    /\ pure' = [pure EXCEPT !.done = TRUE]
    /\ UNCHANGED cacheVars

NextMerge == MergeLookupsCall

SpecMerge == InitMerge /\ [][NextMerge]_vars

\* C7: after mergeLookups(dst, src), every tag name and every (tag, code)
\* description dst had has kept its value, every one dst lacked and src has
\* is in dst with the value of src, and with dst or src nil nothing changed.
C7_MergeIsAdditive ==
    (pure.op = "mergeLookups" /\ pure.done) =>
        IF pure.dst = Nil \/ pure.src = Nil THEN heap = pure.before
        ELSE LET old == pure.before[pure.dst]
                 src == pure.before[pure.src]
                 new == heap[pure.dst]
                 Had(d, tag, v) == tag \in DOMAIN d.enumMap /\ v \in DOMAIN d.enumMap[tag]
             IN  /\ \A tag \in DOMAIN old.tagToName :
                        /\ tag \in DOMAIN new.tagToName
                        /\ new.tagToName[tag] = old.tagToName[tag]
                 /\ \A tag \in DOMAIN src.tagToName \ DOMAIN old.tagToName :
                        /\ tag \in DOMAIN new.tagToName
                        /\ new.tagToName[tag] = src.tagToName[tag]
                 /\ \A tag \in DOMAIN old.enumMap : \A v \in DOMAIN old.enumMap[tag] :
                        /\ Had(new, tag, v)
                        /\ new.enumMap[tag][v] = old.enumMap[tag][v]
                 /\ \A tag \in DOMAIN src.enumMap : \A v \in DOMAIN src.enumMap[tag] :
                        ~Had(old, tag, v) =>
                            /\ Had(new, tag, v)
                            /\ new.enumMap[tag][v] = src.enumMap[tag][v]

\* a merge that had to keep a name and a description of dst against other
\* values in src, and to add a name and a description dst lacked
C7_Witness ==
    /\ pure.op = "mergeLookups" /\ pure.done /\ pure.dst = 1 /\ pure.src = 2
    /\ pure.before[1].tagToName = (1 :> "A")
    /\ pure.before[2].tagToName = (1 :> "B" @@ 2 :> "B")
    /\ pure.before[1].enumMap = (1 :> ("x" :> "P"))
    /\ pure.before[2].enumMap = (1 :> ("x" :> "Q" @@ "y" :> "Q"))
    /\ heap[1].tagToName = (1 :> "A" @@ 2 :> "B")
    /\ heap[1].enumMap = (1 :> ("x" :> "P" @@ "y" :> "Q"))

\* ------------------------------------------------------------------------
\* ValidateFixMessage on its own
\* ------------------------------------------------------------------------

\* the fields a message handed to ValidateFixMessage is put together from
ValidateSegments ==
    {"35=A", "35=Z", "11=X", "54=1", "54=12", "99=q", "junk", "10=000"}

\* the most fields a message body is put together from
MaxFields == 3

\* the message bodies of n fields, each field followed by SOH
RECURSIVE BodiesOf(_)
BodiesOf(n) ==
    IF n = 0 THEN {""}
    ELSE {seg \o SOH \o rest : seg \in ValidateSegments, rest \in BodiesOf(n - 1)}

\* body followed by the CheckSum field that matches it
WithCheckSum(body) ==
    body \o "10=" \o Sprintf03d(SumBytes(body) % 256) \o SOH

\* the messages handed to ValidateFixMessage: the bodies, the bodies with a
\* CheckSum trailer, and the bodies that lack the final SOH
ValidateMsgs ==
    LET bodies == UNION {BodiesOf(n) : n \in 0..MaxFields}
    IN  bodies
        \cup {WithCheckSum(body) : body \in bodies \ {""}}
        \cup {SubSeq(body, 1, Len(body) - 1) : body \in bodies \ {""}}

\* the fields of the validator's test dictionary, and a free-text field
ValidateFields ==
    <<FieldElem("CheckSum", 10, "STRING", << >>),
      FieldElem("ClOrdID", 11, "STRING", << >>),
      FieldElem("MsgType", 35, "STRING", << >>),
      FieldElem("Side", 54, "CHAR", <<EnumElem("1", "Buy"), EnumElem("2", "Sell")>>),
      FieldElem("Text", 99, "STRING", << >>)>>

\* the validator's test dictionary: Logon with MsgType, ClOrdID and Side, all
\* three required
LogonXML ==
    rawFix(ValidateFields,
           <<[Name |-> "Logon", MsgType |-> "A",
              Fields |-> <<[Name |-> "MsgType", Required |-> "Y"],
                           [Name |-> "ClOrdID", Required |-> "Y"],
                           [Name |-> "Side", Required |-> "Y"]>>]>>,
           << >>)

\* a dictionary with two messages, whose declared order is not the order of
\* the tag numbers
TwoMessagesXML ==
    rawFix(ValidateFields,
           <<[Name |-> "Logon", MsgType |-> "A",
              Fields |-> <<[Name |-> "Side", Required |-> "Y"],
                           [Name |-> "ClOrdID", Required |-> "N"]>>],
             [Name |-> "News", MsgType |-> "Z",
              Fields |-> <<[Name |-> "Text", Required |-> "Y"],
                           [Name |-> "ClOrdID", Required |-> "Y"],
                           [Name |-> "MsgType", Required |-> "N"]>>]>>,
           << >>)

\* the dictionaries handed to ValidateFixMessage, as parseDictionary builds them
ValidateDicts ==
    UNION {{parseDictionary(xml, picks).d : picks \in ParsePicks(xml)} :
              xml \in {LogonXML, TwoMessagesXML}}

InitValidate ==
    /\ pure \in {[op |-> "ValidateFixMessage", msg |-> msg, dict |-> dict,
                  fields |-> << >>, errors |-> << >>, done |-> FALSE] :
                    msg \in ValidateMsgs, dict \in ValidateDicts}
    /\ heap = << >>
    /\ dicts = EmptyMap /\ readers = {} /\ pending = NoOne /\ writer = NoOne
    /\ stack = [g \in Goroutines |-> << >>]
    /\ result = [g \in Goroutines |-> NoResult]
    /\ calls = 0 /\ badXML = {}

\* errors := ValidateFixMessage(msg, dict); fields is what it made of msg
ValidateCall ==
    /\ pure.op = "ValidateFixMessage" /\ ~pure.done
    /\ pure' = [pure EXCEPT !.fields = ParseFix(pure.msg).elems,
                            !.errors = ValidateFixMessage(pure.msg, pure.dict),
                            !.done = TRUE]
    /\ UNCHANGED <<heap, cacheVars>>

NextValidate == ValidateCall

SpecValidate == InitValidate /\ [][NextValidate]_vars

\* ------------------------------------------------------------------------
\* properties of ValidateFixMessage
\* ------------------------------------------------------------------------

\* ValidateFixMessage has returned
Validated == pure.op = "ValidateFixMessage" /\ pure.done

\* the fields of the validated message, and the positions of those with tag
ValidatedFields == pure.fields

PositionsOf(tag) == {i \in 1..Len(ValidatedFields) : ValidatedFields[i].Tag = tag}

\* the value of the message's tag 35: that of its last occurrence
MsgTypeValue ==
    ValidatedFields[CHOOSE i \in PositionsOf(35) : \A j \in PositionsOf(35) : j <= i].Value

\* the message type of the validated message is one the dictionary defines
MsgTypeResolved ==
    PositionsOf(35) # {} /\ MsgTypeValue \in DOMAIN pure.dict.Messages

HasPrefix(str, prefix) ==
    Len(str) >= Len(prefix) /\ SubSeq(str, 1, Len(prefix)) = prefix

HasSuffix(str, suffix) ==
    Len(str) >= Len(suffix) /\ SubSeq(str, Len(str) - Len(suffix) + 1, Len(str)) = suffix

\* the check a finding comes from, by its wording
IsRequiredFinding(f) == HasPrefix(f, "Missing required tag ")

IsFieldFinding(f) ==
    HasPrefix(f, "Invalid enum value '") \/ HasPrefix(f, "Invalid type for tag ")

IsOrderFinding(f) == HasPrefix(f, "Tag ") /\ HasSuffix(f, " out of order")

IsChecksumFinding(f) ==
    f = "Missing required checksum tag 10" \/ HasPrefix(f, "Checksum mismatch: ")

\* C8: a message with no tag 35 yields exactly the finding "Missing required
\* tag 35 (MsgType)", and one whose tag-35 value is not a key of Messages
\* yields exactly the finding "Unknown MsgType: <value>": nothing else.
C8_MsgTypeShortCircuit ==
    Validated =>
        /\ PositionsOf(35) = {} =>
               pure.errors = <<"Missing required tag 35 (MsgType)">>
        /\ (PositionsOf(35) # {} /\ MsgTypeValue \notin DOMAIN pure.dict.Messages) =>
               pure.errors = <<"Unknown MsgType: " \o MsgTypeValue>>

\* a message of unknown type that also lacks required fields, has a Side that
\* is neither a listed value nor a CHAR, and has no CheckSum
C8_Witness ==
    /\ Validated
    /\ pure.msg = "54=12|35=Z|"
    /\ "Z" \notin DOMAIN pure.dict.Messages
    /\ pure.errors = <<"Unknown MsgType: Z">>

\* the findings about the fields of the message are in the order of the
\* fields: the first finding is about the first field that has one, and so on
RECURSIVE InFieldOrder(_, _)
InFieldOrder(findings, fields) ==
    IF findings = << >> THEN TRUE
    ELSE IF fields = << >> THEN FALSE
    ELSE LET f == Head(findings)
             fv == Head(fields)
             about ==
                 \/ f = "Invalid enum value '" \o fv.Value \o "' for tag " \o Itoa(fv.Tag)
                 \/ /\ HasPrefix(f, "Invalid type for tag " \o Itoa(fv.Tag) \o ": expected ")
                    /\ HasSuffix(f, ", got '" \o fv.Value \o "'")
         IN  IF about THEN InFieldOrder(Tail(findings), fields)
             ELSE InFieldOrder(findings, Tail(fields))

\* the findings for the required tags the message lacks, in declared order
MissingRequired ==
    LET msgDef == pure.dict.Messages[MsgTypeValue]
        missing == SelectSeq(msgDef.Required, LAMBDA tag : PositionsOf(tag) = {})
    IN  [i \in 1..Len(missing) |->
            "Missing required tag " \o Itoa(missing[i]) \o " ("
                \o GetFieldName(pure.dict, missing[i]) \o ")"]

\* C9: the findings are ordered by check: the missing-required-tag findings
\* in the order the required tags were declared, then the enum and type
\* findings in the order of the message's fields, then the out-of-order
\* findings, then the checksum finding.
C9_FindingsOrderedByCheck ==
    (Validated /\ MsgTypeResolved) =>
        LET required == SelectSeq(pure.errors, IsRequiredFinding)
            perField == SelectSeq(pure.errors, IsFieldFinding)
            ordering == SelectSeq(pure.errors, IsOrderFinding)
            checksum == SelectSeq(pure.errors, IsChecksumFinding)
        IN  /\ pure.errors = required \o perField \o ordering \o checksum
            /\ required = MissingRequired
            /\ InFieldOrder(perField, ValidatedFields)
            /\ Len(checksum) <= 1

\* a message with findings of all four checks: a required tag missing; a
\* field with an enum and a type finding, ahead of the message type; ClOrdID
\* after MsgType, against the declared order; no CheckSum
C9_Witness ==
    /\ Validated
    /\ pure.msg = "54=12|35=Z|11=X|"
    /\ pure.errors = <<"Missing required tag 99 (Text)",
                       "Invalid enum value '12' for tag 54",
                       "Invalid type for tag 54: expected CHAR, got '12'",
                       "Tag 11 out of order",
                       "Missing required checksum tag 10">>

\* the out-of-order findings of the validated message, given for each
\* position of a field the index it is compared with
OrderFindings(reference) ==
    LET index == orderIndex(pure.dict.Messages[MsgTypeValue].FieldOrder)
        ordered == {i \in 1..Len(ValidatedFields) : ValidatedFields[i].Tag \in DOMAIN index}
        flagged == SelectSeq([i \in 1..Len(ValidatedFields) |-> i],
                             LAMBDA i : /\ i \in ordered
                                        /\ index[ValidatedFields[i].Tag] < reference[i])
    IN  [k \in 1..Len(flagged) |->
            "Tag " \o Itoa(ValidatedFields[flagged[k]].Tag) \o " out of order"]

\* the highest FieldOrder index among the fields ahead of position i (-1 if
\* none of them is part of FieldOrder)
RunningMaximum(i) ==
    LET index == orderIndex(pure.dict.Messages[MsgTypeValue].FieldOrder)
        seen == {index[ValidatedFields[j].Tag] :
                    j \in {j \in 1..(i - 1) : ValidatedFields[j].Tag \in DOMAIN index}}
    IN  IF seen = {} THEN -1 ELSE CHOOSE m \in seen : \A n \in seen : n <= m

\* the FieldOrder index of the nearest field ahead of position i that is part
\* of FieldOrder (-1 if there is none)
PrecedingIndex(i) ==
    LET index == orderIndex(pure.dict.Messages[MsgTypeValue].FieldOrder)
        ahead == {j \in 1..(i - 1) : ValidatedFields[j].Tag \in DOMAIN index}
    IN  IF ahead = {} THEN -1
        ELSE index[ValidatedFields[CHOOSE j \in ahead : \A k \in ahead : k <= j].Tag]

\* C10 as stated: "Tag <N> out of order" is produced for exactly the fields
\* whose FieldOrder index is lower than the highest index seen so far.
C10_RunningMaximum ==
    (Validated /\ MsgTypeResolved) =>
        SelectSeq(pure.errors, IsOrderFinding) =
            OrderFindings([i \in 1..Len(ValidatedFields) |-> RunningMaximum(i)])

\* C10, amended: "Tag <N> out of order" is produced for exactly the fields of
\* FieldOrder whose index is lower than the index of the nearest preceding
\* field of FieldOrder; a field that is not part of FieldOrder produces no
\* finding and does not change what the next field is compared with.
C10_PrecedingField ==
    Validated =>
        SelectSeq(pure.errors, IsOrderFinding) =
            IF MsgTypeResolved
            THEN OrderFindings([i \in 1..Len(ValidatedFields) |-> PrecedingIndex(i)])
            ELSE << >>

\* Side, Text, MsgType under FieldOrder MsgType, ClOrdID, Side: MsgType is
\* out of order against Side, with Text, not part of FieldOrder, in between
C10_Witness ==
    /\ Validated
    /\ pure.msg = "54=1|99=q|35=A|"
    /\ pure.dict.Messages["A"].FieldOrder = <<35, 11, 54>>
    /\ SelectSeq(pure.errors, IsOrderFinding) = <<"Tag 35 out of order">>

\* the text of the validated message ahead of its checksum field (the last
\* field of tag 10, whose value is the one supplied): every segment before
\* it, each with the separator that follows it
RECURSIVE JoinSegments(_)
JoinSegments(parts) ==
    IF parts = << >> THEN "" ELSE Head(parts) \o SOH \o JoinSegments(Tail(parts))

ChecksumPrefix ==
    LET parts == StringsSplit(pure.msg, SOH)
        sums == {i \in 1..Len(parts) :
                    ParseFixPart(parts[i]) # << >> /\ ParseFixPart(parts[i])[1].Tag = 10}
        last == CHOOSE i \in sums : \A j \in sums : j <= i
    IN  JoinSegments(SubSeq(parts, 1, last - 1))

\* n in 0..255 as three decimal digits
ThreeDigits(n) ==
    DigitChar(n \div 100) \o DigitChar((n \div 10) % 10) \o DigitChar(n % 10)

\* C11: without tag 10 the checksum finding is "Missing required checksum tag
\* 10"; with it, the expected value is the sum of the bytes up to and
\* including the separator ahead of the checksum field, modulo 256, as three
\* digits, and "Checksum mismatch: got <supplied>, expected <expected>" is
\* produced exactly when the supplied value differs from it.
C11_ChecksumFinding ==
    (Validated /\ MsgTypeResolved) =>
        SelectSeq(pure.errors, IsChecksumFinding) =
            IF PositionsOf(10) = {} THEN <<"Missing required checksum tag 10">>
            ELSE LET last == CHOOSE i \in PositionsOf(10) : \A j \in PositionsOf(10) : j <= i
                     supplied == ValidatedFields[last].Value
                     expected == ThreeDigits(SumBytes(ChecksumPrefix) % 256)
                 IN  IF supplied # expected
                     THEN <<"Checksum mismatch: got " \o supplied \o ", expected " \o expected>>
                     ELSE << >>

\* the enum and type findings due for the fields from position i on
RECURSIVE FieldFindingsFrom(_)
FieldFindingsFrom(i) ==
    IF i > Len(ValidatedFields) THEN << >>
    ELSE LET tag == ValidatedFields[i].Tag
             val == ValidatedFields[i].Value
             enums == pure.dict.enumMap
             types == pure.dict.fieldTypes
             badEnum == tag \in DOMAIN enums /\ val \notin DOMAIN enums[tag]
             badType == /\ tag \in DOMAIN types /\ types[tag] # ""
                        /\ ~IsValidType(val, types[tag])
         IN  (IF badEnum
              THEN <<"Invalid enum value '" \o val \o "' for tag " \o Itoa(tag)>>
              ELSE << >>)
             \o (IF badType
                 THEN <<"Invalid type for tag " \o Itoa(tag) \o ": expected "
                           \o types[tag] \o ", got '" \o val \o "'">>
                 ELSE << >>)
             \o FieldFindingsFrom(i + 1)

\* C12: for every parsed field, duplicates included and in message order, an
\* invalid-enum finding is produced exactly when the dictionary has an enum
\* map for the tag without the value, and an invalid-type finding exactly
\* when it declares a type for the tag whose rule the value fails; a field
\* can produce both or neither.
C12_EnumAndTypePerField ==
    (Validated /\ MsgTypeResolved) =>
        SelectSeq(pure.errors, IsFieldFinding) = FieldFindingsFrom(1)

\* Side twice with a value that is neither a listed code nor a CHAR, then a
\* MsgType that produces neither finding: both findings, twice over
C12_Witness ==
    /\ Validated /\ MsgTypeResolved
    /\ pure.msg = "54=12|54=12|35=A|"
    /\ SelectSeq(pure.errors, IsFieldFinding) =
           <<"Invalid enum value '12' for tag 54",
             "Invalid type for tag 54: expected CHAR, got '12'",
             "Invalid enum value '12' for tag 54",
             "Invalid type for tag 54: expected CHAR, got '12'">>

\* C13: with a known message type, one "Missing required tag <N> (<Name>)"
\* finding is produced for each entry of the required list whose tag occurs
\* nowhere in the message, in the order of the list, with the name
\* GetFieldName gives; none for a required tag that occurs.
C13_RequiredFindings ==
    (Validated /\ MsgTypeResolved) =>
        LET required == pure.dict.Messages[MsgTypeValue].Required
            findings == SelectSeq(pure.errors, IsRequiredFinding)
        IN  /\ findings = MissingRequired
            /\ \A i \in 1..Len(required) :
                   PositionsOf(required[i]) # {} =>
                       \A k \in 1..Len(findings) :
                           ~HasPrefix(findings[k],
                                      "Missing required tag " \o Itoa(required[i]) \o " (")

\* a News message with ClOrdID twice and no Text: Text, declared required
\* ahead of ClOrdID, is reported, ClOrdID is not
C13_Witness ==
    /\ Validated
    /\ pure.msg = "11=X|35=Z|11=X|"
    /\ MsgTypeResolved
    /\ pure.dict.Messages["Z"].Required = <<99, 11>>
    /\ SelectSeq(pure.errors, IsRequiredFinding) = <<"Missing required tag 99 (Text)">>

\* ------------------------------------------------------------------------
\* ParseFix on its own
\* ------------------------------------------------------------------------

\* the segments a message handed to ParseFix is put together from
ParseSegments ==
    {"", "35=A", "8=F", "x=1", "-4=y", "+5=z", "11=a=b", "junk", "=v", "07="}

\* the most segments of a message
MaxSegments == 3

\* the sequences of 1..n segments
RECURSIVE SegmentSeqs(_)
SegmentSeqs(n) ==
    IF n = 0 THEN {}
    ELSE {<<seg>> : seg \in ParseSegments}
         \cup {<<seg>> \o rest : seg \in ParseSegments, rest \in SegmentSeqs(n - 1)}

\* the segments with one separator between each two: a single segment makes
\* a message without separator, a final empty segment one that ends in SOH
RECURSIVE JoinWithSOH(_)
JoinWithSOH(segs) ==
    IF Len(segs) = 1 THEN segs[1]
    ELSE Head(segs) \o SOH \o JoinWithSOH(Tail(segs))

InitParse ==
    /\ pure \in {[op |-> "ParseFix", segs |-> segs, msg |-> JoinWithSOH(segs),
                  out |-> [isNil |-> TRUE, elems |-> << >>], done |-> FALSE] :
                    segs \in SegmentSeqs(MaxSegments)}
    /\ heap = << >>
    /\ dicts = EmptyMap /\ readers = {} /\ pending = NoOne /\ writer = NoOne
    /\ stack = [g \in Goroutines |-> << >>]
    /\ result = [g \in Goroutines |-> NoResult]
    /\ calls = 0 /\ badXML = {}

\* out := ParseFix(msg)
ParseFixCall ==
    /\ pure.op = "ParseFix" /\ ~pure.done
    /\ pure' = [pure EXCEPT !.out = ParseFix(pure.msg), !.done = TRUE]
    /\ UNCHANGED <<heap, cacheVars>>

NextParse == ParseFixCall

SpecParse == InitParse /\ [][NextParse]_vars

\* ------------------------------------------------------------------------
\* properties of ParseFix
\* ------------------------------------------------------------------------

\* ParseFix has returned
Parsed == pure.op = "ParseFix" /\ pure.done

\* the positions of "=" in seg
EqualsIn(seg) == {i \in 1..Len(seg) : CharAt(seg, i) = "="}

\* the text of seg before its first "=", and the text after it
KeyOf(seg) ==
    SubSeq(seg, 1, (CHOOSE i \in EqualsIn(seg) : \A j \in EqualsIn(seg) : i <= j) - 1)

ValueOf(seg) == SubSeq(seg, Len(KeyOf(seg)) + 2, Len(seg))

\* token is an integer in decimal: digits, after a sign or not
IsIntegerToken(token) ==
    LET digits == IF token # "" /\ CharAt(token, 1) \in {"+", "-"}
                  THEN SubSeq(token, 2, Len(token)) ELSE token
    IN  digits # "" /\ \A i \in 1..Len(digits) : CharAt(digits, i) \in Digits

\* the integer token stands for
RECURSIVE DecimalValue(_)
DecimalValue(digits) ==
    IF digits = "" THEN 0
    ELSE 10 * DecimalValue(SubSeq(digits, 1, Len(digits) - 1))
         + (CHOOSE d \in 0..9 : DigitChar(d) = CharAt(digits, Len(digits)))

IntegerOf(token) ==
    IF CharAt(token, 1) = "-" THEN 0 - DecimalValue(SubSeq(token, 2, Len(token)))
    ELSE IF CharAt(token, 1) = "+" THEN DecimalValue(SubSeq(token, 2, Len(token)))
    ELSE DecimalValue(token)

\* seg is a field: not empty, with a "=", and an integer before the first
WellFormed(seg) == seg # "" /\ EqualsIn(seg) # {} /\ IsIntegerToken(KeyOf(seg))

\* the pairs due for the segments from position i on
RECURSIVE PairsFrom(_)
PairsFrom(i) ==
    IF i > Len(pure.segs) THEN << >>
    ELSE (IF WellFormed(pure.segs[i])
          THEN <<[Tag |-> IntegerOf(KeyOf(pure.segs[i])), Value |-> ValueOf(pure.segs[i])]>>
          ELSE << >>)
         \o PairsFrom(i + 1)

\* C14: for a message with a separator ParseFix returns, in the original
\* order and without deduplication, one (tag, value) pair for each non-empty
\* segment with a "=" whose text before the first "=" is an integer, the
\* value being all that follows that "="; the other segments are dropped.
C14_ParseFixPairs ==
    (Parsed /\ Len(pure.segs) > 1) => pure.out.elems = PairsFrom(1)

\* the same field twice around a segment without "=", with a value that
\* holds a "=" in between
C14_Witness ==
    /\ Parsed
    /\ pure.msg = "11=a=b|junk|11=a=b"
    /\ pure.out.elems = <<[Tag |-> 11, Value |-> "a=b"], [Tag |-> 11, Value |-> "a=b"]>>

\* C15: every field ParseFix returns has a non-negative tag.
C15_TagsNonNegative ==
    Parsed => \A i \in 1..Len(pure.out.elems) : pure.out.elems[i].Tag >= 0

\* C16: for a message without separator ParseFix returns nil, with no
\* fields; for a message with a separator it returns a slice that is not
\* nil, also when it holds no field.
C16_NilWithoutSeparator ==
    Parsed =>
        /\ Len(pure.segs) = 1 => (pure.out.isNil /\ pure.out.elems = << >>)
        /\ Len(pure.segs) > 1 => ~pure.out.isNil

\* a well-formed field without separator: nil, not a partial parse
C16_Witness ==
    /\ Parsed
    /\ pure.msg = "35=A"
    /\ pure.out = [isNil |-> TRUE, elems |-> << >>]

\* ------------------------------------------------------------------------
\* detectSchemaKey on its own
\* ------------------------------------------------------------------------

\* the fields a message handed to detectSchemaKey is put together from:
\* begin-strings, ApplVerID codes in and out of the table, and others
DetectSegments ==
    {"8=FIXT.1.1", "8=FIX.4.2", "8=FIX.5.0SP2", "8=", "08=FIX.4.2", "35=8"}
    \cup {"1128=" \o code : code \in {"0", "1", "2", "3", "4", "5", "6", "7", "8", "9",
                                      "10", "x", ""}}

\* the most fields of such a message
MaxDetectFields == 2

\* the sequences of up to n of these fields
RECURSIVE DetectSeqs(_)
DetectSeqs(n) ==
    IF n = 0 THEN {<< >>}
    ELSE DetectSeqs(n - 1)
         \cup {<<seg>> \o rest : seg \in DetectSegments,
                                 rest \in {r \in DetectSeqs(n - 1) : Len(r) = n - 1}}

\* the segments of the messages: the fields with a final SOH (a last, empty
\* segment) and without
DetectMsgSegments ==
    {fields \o <<"">> : fields \in DetectSeqs(MaxDetectFields)}
    \cup (DetectSeqs(MaxDetectFields) \ {<< >>})

InitDetect ==
    /\ pure \in {[op |-> "detectSchemaKey", segs |-> segs, msg |-> JoinWithSOH(segs),
                  key |-> "", done |-> FALSE] : segs \in DetectMsgSegments}
    /\ heap = << >>
    /\ dicts = EmptyMap /\ readers = {} /\ pending = NoOne /\ writer = NoOne
    /\ stack = [g \in Goroutines |-> << >>]
    /\ result = [g \in Goroutines |-> NoResult]
    /\ calls = 0 /\ badXML = {}

\* key := detectSchemaKey(msg)
DetectSchemaKeyCall ==
    /\ pure.op = "detectSchemaKey" /\ ~pure.done
    /\ pure' = [pure EXCEPT !.key = detectSchemaKey(pure.msg), !.done = TRUE]
    /\ UNCHANGED <<heap, cacheVars>>

NextDetect == DetectSchemaKeyCall

SpecDetect == InitDetect /\ [][NextDetect]_vars

\* ------------------------------------------------------------------------
\* properties of detectSchemaKey
\* ------------------------------------------------------------------------

\* the positions of the fields of the message whose key is tag
FieldsOfTag(tag) ==
    {i \in 1..Len(pure.segs) : EqualsIn(pure.segs[i]) # {} /\ KeyOf(pure.segs[i]) = tag}

\* the value of the first of them
FirstValueOf(tag) ==
    ValueOf(pure.segs[CHOOSE i \in FieldsOfTag(tag) : \A j \in FieldsOfTag(tag) : i <= j])

\* the ApplVerID table
ApplVerKeys ==
    [code \in {"0", "1", "2", "3", "4", "5", "6", "7", "8", "9"} |->
        CASE code = "0" -> "FIX27" [] code = "1" -> "FIX30" [] code = "2" -> "FIX40"
          [] code = "3" -> "FIX41" [] code = "4" -> "FIX42" [] code = "5" -> "FIX43"
          [] code = "6" -> "FIX44" [] code = "7" -> "FIX50" [] code = "8" -> "FIX50SP1"
          [] code = "9" -> "FIX50SP2"]

\* str without its "." characters
RECURSIVE WithoutDots(_)
WithoutDots(str) ==
    IF str = "" THEN ""
    ELSE WithoutDots(SubSeq(str, 1, Len(str) - 1))
         \o (IF CharAt(str, Len(str)) = "." THEN "" ELSE CharAt(str, Len(str)))

\* C17: detectSchemaKey gives FIX44 for a message without tag 8; for the
\* begin-string FIXT.1.1 the key the tag-1128 value selects in the table, and
\* FIX50 for any other value or none; for any other begin-string, the
\* begin-string without its "." characters.
C17_DetectSchemaKey ==
    (pure.op = "detectSchemaKey" /\ pure.done) =>
        pure.key =
            IF FieldsOfTag("8") = {} THEN "FIX44"
            ELSE IF FirstValueOf("8") = "FIXT.1.1"
            THEN IF FieldsOfTag("1128") # {} /\ FirstValueOf("1128") \in DOMAIN ApplVerKeys
                 THEN ApplVerKeys[FirstValueOf("1128")]
                 ELSE "FIX50"
            ELSE WithoutDots(FirstValueOf("8"))

\* ApplVerID ahead of the begin-string FIXT.1.1, with the code of FIX 4.1
C17_Witness ==
    /\ pure.op = "detectSchemaKey" /\ pure.done
    /\ pure.msg = "1128=3|8=FIXT.1.1|"
    /\ pure.key = "FIX41"

\* ------------------------------------------------------------------------
\* schema.go: the schema tree
\* ------------------------------------------------------------------------

\* a dictionary document, as both decoders read it:
\*   Fields:     sequence of [Name, Tag, Type, Values, ValuesWrapper]
\*   Messages:   sequence of [Name, MsgType, MsgCat, Fields, Groups, Components]
\*   Components: sequence of [Name, Fields, Groups, Components]
\*   Header, Trailer: [Fields, Groups, Components] (the sections carry no name)
\*   Groups:     sequence of [NumInGroup, Tags] (the flat loader's group table)
\* Fields of a message, component or group are [Name, Required]; its Groups
\* are [Name, Required, Fields, Groups, Components]; its Components are
\* [Name, Required]
DictionaryXML(major, minor, servicePack, fields, messages, components, header, trailer) ==
    [malformed |-> FALSE, Major |-> major, Minor |-> minor, ServicePack |-> servicePack,
     Fields |-> fields, Messages |-> messages, Components |-> components,
     Header |-> header, Trailer |-> trailer, Groups |-> << >>]

\* what xml.Decoder.Decode stores into rawFix for the document
DecodeRawFix(doc) ==
    rawFix(doc.Fields,
           [i \in 1..Len(doc.Messages) |->
               [Name |-> doc.Messages[i].Name, MsgType |-> doc.Messages[i].MsgType,
                Fields |-> doc.Messages[i].Fields]],
           doc.Groups)

\* what xml.Unmarshal stores into FixDictionary for the document: a field
\* keeps its direct value elements only, the sections get the empty name
DecodeFixDictionary(doc) ==
    [Major |-> doc.Major, Minor |-> doc.Minor, ServicePack |-> doc.ServicePack,
     Fields |-> [i \in 1..Len(doc.Fields) |->
                    [Name |-> doc.Fields[i].Name, Number |-> doc.Fields[i].Tag,
                     Type |-> doc.Fields[i].Type, Values |-> doc.Fields[i].Values]],
     Messages |-> doc.Messages,
     Components |-> doc.Components,
     Header |-> [Name |-> "", Fields |-> doc.Header.Fields,
                 Groups |-> doc.Header.Groups, Components |-> doc.Header.Components],
     Trailer |-> [Name |-> "", Fields |-> doc.Trailer.Fields,
                  Groups |-> doc.Trailer.Groups, Components |-> doc.Trailer.Components]]

\* for _, x := range list { m[x.Name] = x }
RECURSIVE ByName(_, _)
ByName(list, m) ==
    IF list = << >> THEN m
    ELSE ByName(Tail(list), MapPut(m, Head(list).Name, Head(list)))

\* buildFieldNodes that keeps a reference to an undeclared name, with the
\* zero Field
buildFieldNodesKeepsAll(refs, fieldMap) ==
    [i \in 1..Len(refs) |->
        [Ref |-> refs[i],
         Field |-> IF refs[i].Name \in DOMAIN fieldMap THEN fieldMap[refs[i].Name]
                   ELSE [Name |-> "", Number |-> 0, Type |-> "", Values |-> << >>]]]

buildFieldNodes(refs, fieldMap) ==
    LET kept == SelectSeq(refs, LAMBDA ref : ref.Name \in DOMAIN fieldMap)
    IN  [i \in 1..Len(kept) |-> [Ref |-> kept[i], Field |-> fieldMap[kept[i].Name]]]

RECURSIVE buildComponentNode(_, _, _)
RECURSIVE buildGroupNode(_, _, _)

\* the nodes of the component references that name a declared component
buildSubComponents(crefs, fieldMap, compMap) ==
    LET kept == SelectSeq(crefs, LAMBDA cref : cref.Name \in DOMAIN compMap)
    IN  [i \in 1..Len(kept) |->
            buildComponentNode(compMap[kept[i].Name], fieldMap, compMap)]

buildSubGroups(groups, fieldMap, compMap) ==
    [i \in 1..Len(groups) |-> buildGroupNode(groups[i], fieldMap, compMap)]

buildComponentNode(comp, fieldMap, compMap) ==
    [Name |-> comp.Name,
     Fields |-> buildFieldNodes(comp.Fields, fieldMap),
     Components |-> buildSubComponents(comp.Components, fieldMap, compMap),
     Groups |-> buildSubGroups(comp.Groups, fieldMap, compMap)]

buildGroupNode(group, fieldMap, compMap) ==
    [Name |-> group.Name,
     Required |-> group.Required,
     Fields |-> buildFieldNodes(group.Fields, fieldMap),
     Components |-> buildSubComponents(group.Components, fieldMap, compMap),
     Groups |-> buildSubGroups(group.Groups, fieldMap, compMap)]

buildMessageNode(msg, fieldMap, compMap) ==
    [Name |-> msg.Name,
     MsgType |-> msg.MsgType,
     MsgCat |-> msg.MsgCat,
     Fields |-> buildFieldNodes(msg.Fields, fieldMap),
     Components |-> buildSubComponents(msg.Components, fieldMap, compMap),
     Groups |-> buildSubGroups(msg.Groups, fieldMap, compMap)]

\* for _, c := range dict.Components { schema.Components[c.Name] = ... }
RECURSIVE PutComponentNodes(_, _, _, _)
PutComponentNodes(list, m, fieldMap, compMap) ==
    IF list = << >> THEN m
    ELSE PutComponentNodes(Tail(list),
             MapPut(m, Head(list).Name, buildComponentNode(Head(list), fieldMap, compMap)),
             fieldMap, compMap)

\* the message nodes put under their message type
RECURSIVE PutMessageNodesByType(_, _, _, _)
PutMessageNodesByType(list, m, fieldMap, compMap) ==
    IF list = << >> THEN m
    ELSE PutMessageNodesByType(Tail(list),
             MapPut(m, Head(list).MsgType, buildMessageNode(Head(list), fieldMap, compMap)),
             fieldMap, compMap)

\* for _, m := range dict.Messages { schema.Messages[m.Name] = ... }
RECURSIVE PutMessageNodes(_, _, _, _)
PutMessageNodes(list, m, fieldMap, compMap) ==
    IF list = << >> THEN m
    ELSE PutMessageNodes(Tail(list),
             MapPut(m, Head(list).Name, buildMessageNode(Head(list), fieldMap, compMap)),
             fieldMap, compMap)

\* the envelopes added only for a section that declares something
PutEnvelopesWhenDeclared(components, dict, fieldMap, compMap) ==
    LET header == [dict.Header EXCEPT !.Name = "Header"]
        trailer == [dict.Trailer EXCEPT !.Name = "Trailer"]
        Declares(c) == c.Fields # << >> \/ c.Groups # << >> \/ c.Components # << >>
        withHeader == IF Declares(header)
                      THEN MapPut(components, "Header",
                                  buildComponentNode(header, fieldMap, compMap))
                      ELSE components
    IN  IF Declares(trailer)
        THEN MapPut(withHeader, "Trailer", buildComponentNode(trailer, fieldMap, compMap))
        ELSE withHeader

\* Components["Header"] and Components["Trailer"], set after the named ones
PutEnvelopes(components, dict, fieldMap, compMap) ==
    LET header == [dict.Header EXCEPT !.Name = "Header"]
        trailer == [dict.Trailer EXCEPT !.Name = "Trailer"]
    IN  MapPut(MapPut(components, "Header", buildComponentNode(header, fieldMap, compMap)),
               "Trailer", buildComponentNode(trailer, fieldMap, compMap))

BuildSchema(dict) ==
    LET fieldMap == ByName(dict.Fields, EmptyMap)
        compMap == ByName(dict.Components, EmptyMap)
    IN  [Fields |-> fieldMap,
         Components |-> PutEnvelopes(PutComponentNodes(dict.Components, EmptyMap,
                                                       fieldMap, compMap),
                                     dict, fieldMap, compMap),
         Messages |-> PutMessageNodes(dict.Messages, EmptyMap, fieldMap, compMap),
         Version |-> dict.Major \o "." \o dict.Minor,
         ServicePack |-> IF dict.ServicePack = "" THEN "n/a" ELSE dict.ServicePack]

\* ------------------------------------------------------------------------
\* parseDictionary and BuildSchema on one document
\* ------------------------------------------------------------------------

Ref(name, required) == [Name |-> name, Required |-> required]

\* the fields every document of the model declares
SchemaFields ==
    <<FieldElem("Account", 1, "STRING", << >>),
      FieldElem("ClOrdID", 11, "STRING", << >>),
      FieldElem("MsgType", 35, "STRING", << >>)>>

\* a component of one field
PartiesComponent ==
    [Name |-> "Parties", Fields |-> <<Ref("Account", "Y")>>,
     Groups |-> << >>, Components |-> << >>]

\* a component with an undeclared field, a nested component, a reference to
\* an undeclared component, and a group that nests the component again
InstrumentComponent ==
    [Name |-> "Instrument",
     Fields |-> <<Ref("ClOrdID", "N"), Ref("Undeclared", "N")>>,
     Groups |-> <<[Name |-> "NoLegs", Required |-> "N",
                   Fields |-> <<Ref("Account", "N")>>, Groups |-> << >>,
                   Components |-> <<Ref("Parties", "N")>>]>>,
     Components |-> <<Ref("Parties", "Y"), Ref("Missing", "N")>>]

\* a component that takes the name of the header
NamedHeaderComponent ==
    [Name |-> "Header", Fields |-> <<Ref("Account", "Y")>>,
     Groups |-> << >>, Components |-> << >>]

\* the component sections of the documents
SchemaComponents ==
    {<< >>, <<PartiesComponent>>, <<PartiesComponent, InstrumentComponent>>,
     <<NamedHeaderComponent>>}

EmptySection == [Fields |-> << >>, Groups |-> << >>, Components |-> << >>]

\* the header and trailer sections of the documents
SchemaHeaders ==
    {EmptySection,
     [EmptySection EXCEPT !.Fields = <<Ref("ClOrdID", "Y"), Ref("Undeclared", "Y")>>],
     [EmptySection EXCEPT !.Components = <<Ref("Parties", "Y")>>]}

SchemaTrailers ==
    {EmptySection, [EmptySection EXCEPT !.Fields = <<Ref("Account", "N")>>]}

\* the message declarations of the documents
SchemaMessages ==
    {[Name |-> name, MsgType |-> msgType, MsgCat |-> "app",
      Fields |-> body.Fields, Groups |-> body.Groups, Components |-> body.Components] :
        name \in {"Logon", "News"}, msgType \in {"A", "B"},
        body \in {[Fields |-> <<Ref("ClOrdID", "Y")>>, Components |-> << >>,
                   Groups |-> << >>],
                  [Fields |-> <<Ref("MsgType", "N"), Ref("Undeclared", "N")>>,
                   Components |-> <<Ref("Parties", "Y"), Ref("Missing", "N")>>,
                   Groups |-> <<[Name |-> "NoOrders", Required |-> "N",
                                 Fields |-> <<Ref("ClOrdID", "Y"), Ref("Undeclared", "Y")>>,
                                 Groups |-> << >>,
                                 Components |-> <<Ref("Instrument", "N"),
                                                  Ref("Missing", "Y")>>]>>]}}

\* the most messages a document declares
MaxMessages == 2

\* the sequences of up to n message declarations
RECURSIVE MessageSeqs(_)
MessageSeqs(n) ==
    IF n = 0 THEN {<< >>}
    ELSE MessageSeqs(n - 1)
         \cup {<<m>> \o rest : m \in SchemaMessages,
                               rest \in {r \in MessageSeqs(n - 1) : Len(r) = n - 1}}

SchemaDocs ==
    {DictionaryXML("4", "4", "", SchemaFields, messages, components, header, trailer) :
        messages \in MessageSeqs(MaxMessages), components \in SchemaComponents,
        header \in SchemaHeaders, trailer \in SchemaTrailers}

EmptyTree ==
    [Fields |-> EmptyMap, Components |-> EmptyMap, Messages |-> EmptyMap,
     Version |-> "", ServicePack |-> ""]

InitSchema ==
    /\ pure \in {[op |-> "BuildSchema", doc |-> doc, flat |-> EmptyLookup,
                  tree |-> EmptyTree, done |-> FALSE] : doc \in SchemaDocs}
    /\ heap = << >>
    /\ dicts = EmptyMap /\ readers = {} /\ pending = NoOne /\ writer = NoOne
    /\ stack = [g \in Goroutines |-> << >>]
    /\ result = [g \in Goroutines |-> NoResult]
    /\ calls = 0 /\ badXML = {}

\* flat, _ := parseDictionary(xml); tree := BuildSchema(dict), with dict
\* unmarshalled from the same xml
BuildBoth ==
    /\ pure.op = "BuildSchema" /\ ~pure.done
    /\ \E picks \in ParsePicks(DecodeRawFix(pure.doc)) :
           pure' = [pure EXCEPT
                       !.flat = parseDictionary(DecodeRawFix(pure.doc), picks).d,
                       !.tree = BuildSchema(DecodeFixDictionary(pure.doc)),
                       !.done = TRUE]
    /\ UNCHANGED <<heap, cacheVars>>

NextSchema == BuildBoth

SpecSchema == InitSchema /\ [][NextSchema]_vars

\* ------------------------------------------------------------------------
\* properties of the two trees
\* ------------------------------------------------------------------------

Built == pure.op = "BuildSchema" /\ pure.done

\* C18 as stated: for each declared message with type T and name N the flat
\* dictionary has Messages[T].Name = N and the tree has Messages[N].MsgType = T.
C18_EveryDeclaredMessage ==
    Built =>
        \A i \in 1..Len(pure.doc.Messages) :
            LET T == pure.doc.Messages[i].MsgType
                N == pure.doc.Messages[i].Name
            IN  /\ T \in DOMAIN pure.flat.Messages /\ pure.flat.Messages[T].Name = N
                /\ N \in DOMAIN pure.tree.Messages /\ pure.tree.Messages[N].MsgType = T

\* C18, amended: for each declared message with type T and name N, the flat
\* dictionary has Messages[T].Name = N unless a later message declares type T
\* again, and the tree has Messages[N].MsgType = T unless a later message
\* declares name N again.
C18_LastDeclarationWins ==
    Built =>
        \A i \in 1..Len(pure.doc.Messages) :
            LET T == pure.doc.Messages[i].MsgType
                N == pure.doc.Messages[i].Name
                later == (i + 1)..Len(pure.doc.Messages)
            IN  /\ (\A j \in later : pure.doc.Messages[j].MsgType # T) =>
                       (T \in DOMAIN pure.flat.Messages /\ pure.flat.Messages[T].Name = N)
                /\ (\A j \in later : pure.doc.Messages[j].Name # N) =>
                       (N \in DOMAIN pure.tree.Messages /\ pure.tree.Messages[N].MsgType = T)

\* Logon and then News, both of type A: the flat dictionary maps A to News,
\* the tree has both names
C18_Witness ==
    /\ Built
    /\ Len(pure.doc.Messages) = 2
    /\ pure.doc.Messages[1].Name = "Logon" /\ pure.doc.Messages[1].MsgType = "A"
    /\ pure.doc.Messages[2].Name = "News" /\ pure.doc.Messages[2].MsgType = "A"
    /\ pure.flat.Messages["A"].Name = "News"
    /\ pure.tree.Messages["Logon"].MsgType = "A"
    /\ pure.tree.Messages["News"].MsgType = "A"

\* the names of the declared fields among refs, in order
DeclaredNames(refs) ==
    LET declared == {pure.doc.Fields[i].Name : i \in 1..Len(pure.doc.Fields)}
        kept == SelectSeq(refs, LAMBDA ref : ref.Name \in declared)
    IN  [i \in 1..Len(kept) |-> kept[i].Name]

\* node is what a component declared with this name and the content of
\* section comes to: its declared fields in order, and the node a named
\* component with the same content gets
BuiltLikeComponent(node, name, section) ==
    LET dict == DecodeFixDictionary(pure.doc)
        named == [Name |-> name, Fields |-> section.Fields,
                  Groups |-> section.Groups, Components |-> section.Components]
    IN  /\ node.Name = name
        /\ [i \in 1..Len(node.Fields) |-> node.Fields[i].Field.Name]
               = DeclaredNames(section.Fields)
        /\ node = PutComponentNodes(<<named>>, EmptyMap, pure.tree.Fields,
                                    ByName(dict.Components, EmptyMap))[name]

\* C19: the tree has components named "Header" and "Trailer", whatever the
\* dictionary declares, built from its header and trailer sections the way
\* named components are.
C19_EnvelopesAlwaysPresent ==
    Built =>
        /\ {"Header", "Trailer"} \subseteq DOMAIN pure.tree.Components
        /\ BuiltLikeComponent(pure.tree.Components["Header"], "Header", pure.doc.Header)
        /\ BuiltLikeComponent(pure.tree.Components["Trailer"], "Trailer", pure.doc.Trailer)

\* a document without components, header fields or trailer fields
C19_Witness ==
    /\ Built
    /\ pure.doc.Components = << >>
    /\ pure.doc.Header = EmptySection /\ pure.doc.Trailer = EmptySection
    /\ DOMAIN pure.tree.Components = {"Header", "Trailer"}
    /\ pure.tree.Components["Header"] =
           [Name |-> "Header", Fields |-> << >>, Components |-> << >>, Groups |-> << >>]

\* the tag the document declares for a field name (the names of the
\* documents are declared once)
TagOfName(name) ==
    LET i == CHOOSE i \in 1..Len(pure.doc.Fields) : pure.doc.Fields[i].Name = name
    IN  pure.doc.Fields[i].Tag

\* the declared field references among refs, in order
DeclaredRefs(refs) ==
    SelectSeq(refs, LAMBDA ref : \E i \in 1..Len(pure.doc.Fields) :
                                    pure.doc.Fields[i].Name = ref.Name)

\* the component the document declares last under the name
DeclaredComponent(name) ==
    LET hits == {i \in 1..Len(pure.doc.Components) : pure.doc.Components[i].Name = name}
    IN  pure.doc.Components[CHOOSE i \in hits : \A j \in hits : j <= i]

\* the component references among crefs that name a declared component
DeclaredComponentRefs(crefs) ==
    SelectSeq(crefs, LAMBDA cref : \E i \in 1..Len(pure.doc.Components) :
                                      pure.doc.Components[i].Name = cref.Name)

\* the field references a message, component or group reaches: its own, then
\* those of the components it refers to, then those of its groups, each
\* expanded the same way
RECURSIVE FlattenedRefs(_)
RECURSIVE FlattenedRefsOfAll(_)
FlattenedRefs(section) ==
    DeclaredRefs(section.Fields)
    \o FlattenedRefsOfAll([i \in 1..Len(DeclaredComponentRefs(section.Components)) |->
           DeclaredComponent(DeclaredComponentRefs(section.Components)[i].Name)])
    \o FlattenedRefsOfAll(section.Groups)

FlattenedRefsOfAll(sections) ==
    IF sections = << >> THEN << >>
    ELSE FlattenedRefs(Head(sections)) \o FlattenedRefsOfAll(Tail(sections))

\* the message of the document that declares its type last
LastOfType(i) ==
    \A j \in 1..Len(pure.doc.Messages) :
        pure.doc.Messages[j].MsgType = pure.doc.Messages[i].MsgType => j <= i

\* C27: the FieldOrder of the MessageDef of every declared message is the
\* sequence of tags its field, component and group references reach when
\* expanded recursively, and the required ones among them are in Required.
C27_FieldOrderFlattened ==
    Built =>
        \A i \in 1..Len(pure.doc.Messages) :
            LET msg == pure.doc.Messages[i]
                refs == FlattenedRefs(msg)
                def == pure.flat.Messages[msg.MsgType]
            IN  LastOfType(i) =>
                    /\ def.FieldOrder = [k \in 1..Len(refs) |-> TagOfName(refs[k].Name)]
                    /\ \A k \in 1..Len(refs) :
                          refs[k].Required = "Y" =>
                              TagOfName(refs[k].Name) \in Range(def.Required)

\* the field the document declares last under the name, as the tree holds it
DeclaredField(name) ==
    LET fields == DecodeFixDictionary(pure.doc).Fields
        hits == {i \in 1..Len(fields) : fields[i].Name = name}
    IN  fields[CHOOSE i \in hits : \A j \in hits : j <= i]

\* node is the expansion of section (a message, component or group of the
\* document): a field node for each reference to a declared field, in order,
\* with that field; a component node for each reference to a declared
\* component, in order, the expansion of that component; a group node for
\* each group, in order, the expansion of the group
RECURSIVE ExpansionOf(_, _)
ExpansionOf(node, section) ==
    LET refs == DeclaredRefs(section.Fields)
        crefs == DeclaredComponentRefs(section.Components)
    IN  /\ Len(node.Fields) = Len(refs)
        /\ \A i \in 1..Len(refs) :
              /\ node.Fields[i].Ref = refs[i]
              /\ node.Fields[i].Field = DeclaredField(refs[i].Name)
        /\ Len(node.Components) = Len(crefs)
        /\ \A i \in 1..Len(crefs) :
              /\ node.Components[i].Name = crefs[i].Name
              /\ ExpansionOf(node.Components[i], DeclaredComponent(crefs[i].Name))
        /\ Len(node.Groups) = Len(section.Groups)
        /\ \A i \in 1..Len(section.Groups) :
              /\ node.Groups[i].Name = section.Groups[i].Name
              /\ node.Groups[i].Required = section.Groups[i].Required
              /\ ExpansionOf(node.Groups[i], section.Groups[i])

\* C28: every message node, component node and envelope of the tree is the
\* expansion of its declaration at every depth: references to undeclared
\* field and component names are dropped, the kept field nodes carry the
\* declared field, the kept component nodes are the expansion of the declared
\* component, and the nodes of each kind keep the order of their references.
C28_UndeclaredDropped ==
    Built =>
        /\ \A i \in 1..Len(pure.doc.Messages) :
              LET msg == pure.doc.Messages[i]
              IN  (\A j \in 1..Len(pure.doc.Messages) :
                      pure.doc.Messages[j].Name = msg.Name => j <= i)
                  => /\ msg.Name \in DOMAIN pure.tree.Messages
                     /\ ExpansionOf(pure.tree.Messages[msg.Name], msg)
        /\ \A i \in 1..Len(pure.doc.Components) :
              LET name == pure.doc.Components[i].Name
              IN  name \notin {"Header", "Trailer"}
                  => /\ name \in DOMAIN pure.tree.Components
                     /\ ExpansionOf(pure.tree.Components[name], DeclaredComponent(name))
        /\ ExpansionOf(pure.tree.Components["Header"], pure.doc.Header)
        /\ ExpansionOf(pure.tree.Components["Trailer"], pure.doc.Trailer)

\* a message whose group refers to a component whose group refers to a
\* component: the nodes down to the innermost field, with the undeclared
\* references of each level gone
C28_Witness ==
    /\ Built
    /\ Len(pure.doc.Components) = 2
    /\ "News" \in DOMAIN pure.tree.Messages
    /\ LET node == pure.tree.Messages["News"]
       IN  /\ Len(node.Fields) = 1 /\ Len(node.Components) = 1 /\ Len(node.Groups) = 1
           /\ Len(node.Groups[1].Fields) = 1 /\ Len(node.Groups[1].Components) = 1
           /\ node.Groups[1].Components[1].Name = "Instrument"
           /\ Len(node.Groups[1].Components[1].Fields) = 1
           /\ Len(node.Groups[1].Components[1].Components) = 1
           /\ node.Groups[1].Components[1].Groups[1].Components[1].Name = "Parties"
           /\ node.Groups[1].Components[1].Groups[1].Components[1].Fields[1].Field.Number = 1

\* ------------------------------------------------------------------------
\* obfuscator.go: the Obfuscator under concurrent ObfuscateLine calls
\* ------------------------------------------------------------------------

\* splitOnce: s split at its first "=" (a field holds no SOH)
splitOnce(str) ==
    LET idx == StringsIndex(str, "=")
    IN  IF idx < 0 THEN [left |-> "", right |-> "", ok |-> FALSE]
        ELSE [left |-> SubSeq(str, 1, idx), right |-> SubSeq(str, idx + 2, Len(str)),
              ok |-> TRUE]

\* strings.Join(fields, soh)
RECURSIVE StringsJoin(_)
StringsJoin(fields) ==
    IF fields = << >> THEN ""
    ELSE IF Len(fields) = 1 THEN fields[1]
    ELSE Head(fields) \o SOH \o StringsJoin(Tail(fields))

\* fmt.Sprintf("%s%04d", name, n)
Sprintf04d(name, n) ==
    LET digits == NatString(n)
        pad == CASE Len(digits) = 1 -> "000" [] Len(digits) = 2 -> "00"
                 [] Len(digits) = 3 -> "0" [] OTHER -> ""
    IN  name \o pad \o digits

\* the sensitive tags the Obfuscator is created with
SensitiveTags == (49 :> "SenderCompID" @@ 56 :> "TargetCompID")

\* the lines handed to ObfuscateLine
ObfuscateLines ==
    {"49=A|56=A|", "49=B|11=X|49=A", "junk|049=A|", "56=|ABC=A|56=A"}

\* the ObfuscateLine calls the model makes in all
MaxLines == 3

\* the field of the line is one of a sensitive tag
IsSensitive(f) ==
    /\ splitOnce(f).ok
    /\ ~Atoi(splitOnce(f).left).err
    /\ Atoi(splitOnce(f).left).val \in DOMAIN SensitiveTags

\* the index of the first sensitive field of fields from i on, or past the end
NextSensitive(fields, i) ==
    LET hits == {j \in i..Len(fields) : IsSensitive(fields[j])}
    IN  IF hits = {} THEN Len(fields) + 1
        ELSE CHOOSE j \in hits : \A k \in hits : j <= k

\* CreateObfuscator(SensitiveTags, true)
InitObfuscate ==
    /\ pure = [op |-> "Obfuscator", tags |-> SensitiveTags, mu |-> NoOne,
               aliasMap |-> EmptyMap, counter |-> EmptyMap, stderr |-> << >>]
    /\ stack = [g \in Goroutines |-> << >>]
    /\ result = [g \in Goroutines |-> NoResult]
    /\ calls = 0
    /\ heap = << >>
    /\ dicts = EmptyMap /\ readers = {} /\ pending = NoOne /\ writer = NoOne
    /\ badXML = {}

\* g goes on from field i of its line: to the Lock for the next sensitive
\* field, or to the return of the joined line
ObfuscateFrom(g, line, fields, i) ==
    LET next == NextSensitive(fields, i)
    IN  IF next > Len(fields)
        THEN /\ stack' = [stack EXCEPT ![g] = << >>]
             /\ result' = [result EXCEPT ![g] = [fn |-> "ObfuscateLine", line |-> line,
                                                 val |-> StringsJoin(fields)]]
        ELSE /\ stack' = [stack EXCEPT ![g] = <<[fn |-> "ObfuscateLine", pc |-> "lock",
                                                 line |-> line, fields |-> fields,
                                                 i |-> next]>>]
             /\ UNCHANGED result

\* o.ObfuscateLine(line, stderr), up to the first o.mu.Lock()
ObfuscateLineCall(g, line) ==
    /\ pure.op = "Obfuscator"
    /\ stack[g] = << >> /\ calls < MaxLines
    /\ FirstCaller(g)
    /\ calls' = calls + 1
    /\ ObfuscateFrom(g, line, StringsSplit(line, SOH), 1)
    /\ UNCHANGED <<pure, heap, dicts, readers, pending, writer, badXML>>

\* o.mu.Lock()
ObfuscateLock(g) ==
    /\ pure.op = "Obfuscator"
    /\ stack[g] # << >> /\ Top(g).pc = "lock"
    /\ pure.mu = NoOne
    /\ pure' = [pure EXCEPT !.mu = g]
    /\ stack' = [stack EXCEPT ![g] = <<[Top(g) EXCEPT !.pc = "locked"]>>]
    /\ UNCHANGED <<result, calls, heap, dicts, readers, pending, writer, badXML>>

\* the alias looked up or made under the lock, o.mu.Unlock(), the field
\* rewritten, and the loop up to the next Lock or the return
ObfuscateAssign(g) ==
    /\ pure.op = "Obfuscator"
    /\ stack[g] # << >> /\ Top(g).pc = "locked"
    /\ LET f == Top(g).fields[Top(g).i]
           tagStr == splitOnce(f).left
           val == splitOnce(f).right
           tagNum == Atoi(tagStr).val
           name == pure.tags[tagNum]
           key == tagStr \o "=" \o val
           exists == key \in DOMAIN pure.aliasMap
           count == (IF tagNum \in DOMAIN pure.counter THEN pure.counter[tagNum] ELSE 0) + 1
           alias == IF exists THEN pure.aliasMap[key] ELSE Sprintf04d(name, count)
           fields == [Top(g).fields EXCEPT ![Top(g).i] = tagStr \o "=" \o alias]
       IN  /\ pure' = IF exists THEN [pure EXCEPT !.mu = NoOne]
                      ELSE [pure EXCEPT !.mu = NoOne,
                                        !.counter = MapPut(@, tagNum, count),
                                        !.aliasMap = MapPut(@, key, alias),
                                        !.stderr = Append(@, [tagNum |-> tagNum, name |-> name,
                                                              val |-> val, alias |-> alias])]
           /\ ObfuscateFrom(g, Top(g).line, fields, Top(g).i + 1)
    /\ UNCHANGED <<calls, heap, dicts, readers, pending, writer, badXML>>

NextObfuscate ==
    \/ \E g \in Goroutines : \E line \in ObfuscateLines : ObfuscateLineCall(g, line)
    \/ \E g \in Goroutines : ObfuscateLock(g)
    \/ \E g \in Goroutines : ObfuscateAssign(g)

SpecObfuscate == InitObfuscate /\ [][NextObfuscate]_vars

\* the first-use records of the Obfuscator, in the order they were made
FirstUses == pure.stderr

\* the first-use records of one tag number, in order
FirstUsesOf(tagNum) == SelectSeq(FirstUses, LAMBDA e : e.tagNum = tagNum)

\* the aliases given to one value of one tag number
AliasesOf(tagNum, val) ==
    {FirstUses[k].alias : k \in {j \in 1..Len(FirstUses) :
        FirstUses[j].tagNum = tagNum /\ FirstUses[j].val = val}}

\* a returned line carries, in each sensitive field, an alias given to that
\* field's tag number and value, and leaves every other field alone
ReturnedWithAliases(g) ==
    LET before == StringsSplit(result[g].line, SOH)
        after == StringsSplit(result[g].val, SOH)
    IN  /\ Len(after) = Len(before)
        /\ \A j \in 1..Len(before) :
              IF IsSensitive(before[j])
              THEN \E alias \in AliasesOf(Atoi(splitOnce(before[j]).left).val,
                                          splitOnce(before[j]).right) :
                      after[j] = splitOnce(before[j]).left \o "=" \o alias
              ELSE after[j] = before[j]

\* C20: under any interleaving of ObfuscateLine calls on one Obfuscator, each
\* value of a sensitive tag has exactly one alias, every returned line shows
\* that alias for the tag and value, two values of one tag never share an
\* alias, and the aliases of a tag are <Name>0001, <Name>0002, ... in order
\* of first assignment
C20_StableAliases ==
    pure.op = "Obfuscator" =>
        /\ \A tagNum \in DOMAIN SensitiveTags :
              LET uses == FirstUsesOf(tagNum)
              IN  /\ \A j, k \in 1..Len(uses) : uses[j].val = uses[k].val => j = k
                  /\ \A j, k \in 1..Len(uses) : uses[j].alias = uses[k].alias => j = k
                  /\ \A k \in 1..Len(uses) :
                        uses[k].alias = Sprintf04d(SensitiveTags[tagNum], k)
        /\ \A g \in Goroutines :
              result[g] # NoResult => ReturnedWithAliases(g)

\* ------------------------------------------------------------------------
\* parseDictionary and the accessors on one dictionary text
\* ------------------------------------------------------------------------

\* the field elements of the dictionary texts: a name declared under two tag
\* numbers, a field without a name attribute, a tag declared twice, a code
\* that occurs twice among the direct value elements and again inside the
\* wrapper element, and a MsgType field with a code of its own
LookupFieldPool ==
    {FieldElem("Account", 1, "STRING", << >>),
     FieldElem("Account", 2, "STRING", << >>),
     FieldElem("", 5, "STRING", << >>),
     FieldElem("Side", 54, "CHAR", <<EnumElem("1", "Buy"), EnumElem("2", "Sell")>>),
     [FieldElem("Side", 54, "CHAR", <<EnumElem("1", "Buy"), EnumElem("1", "Bid")>>)
        EXCEPT !.ValuesWrapper = <<EnumElem("1", "Purchase"), EnumElem("3", "Short")>>],
     [FieldElem("MsgType", 35, "STRING", << >>)
        EXCEPT !.ValuesWrapper = <<EnumElem("A", "LogonValue")>>]}

\* the most field elements a dictionary text declares
MaxLookupFields == 2

\* the sequences of up to n field elements
RECURSIVE LookupFieldSeqs(_)
LookupFieldSeqs(n) ==
    IF n = 0 THEN {<< >>}
    ELSE LookupFieldSeqs(n - 1)
         \cup {<<f>> \o rest : f \in LookupFieldPool,
                               rest \in {r \in LookupFieldSeqs(n - 1) : Len(r) = n - 1}}

\* the message sections of the dictionary texts
LookupMessages ==
    {<< >>,
     <<[Name |-> "Logon", MsgType |-> "A",
        Fields |-> <<[Name |-> "Account", Required |-> "Y"],
                     [Name |-> "Side", Required |-> "N"]>>]>>}

LookupXMLs ==
    {rawFix(fields, messages, << >>) :
        fields \in LookupFieldSeqs(MaxLookupFields), messages \in LookupMessages}

\* the tags and values the accessors are asked for
LookupTags == {-7, 0, 1, 2, 5, 35, 54}

LookupValues == {"", "1", "2", "3", "A"}

InitLookup ==
    /\ pure \in {[op |-> "parseDictionary", xml |-> xml, loads |-> << >>,
                  fn |-> "", tag |-> 0, val |-> "", out |-> ""] : xml \in LookupXMLs}
    /\ heap = << >>
    /\ dicts = EmptyMap /\ readers = {} /\ pending = NoOne /\ writer = NoOne
    /\ stack = [g \in Goroutines |-> << >>]
    /\ result = [g \in Goroutines |-> NoResult]
    /\ calls = 0 /\ badXML = {}

\* d, _ := parseDictionary(xml), made twice on the same text
ParseDictionaryCall ==
    /\ pure.op = "parseDictionary" /\ Len(pure.loads) < 2
    /\ \E picks \in ParsePicks(pure.xml) :
           pure' = [pure EXCEPT !.loads = Append(@, parseDictionary(pure.xml, picks).d)]
    /\ UNCHANGED <<heap, cacheVars>>

\* d.GetFieldName(tag) on the first load
GetFieldNameCall ==
    /\ pure.op = "parseDictionary" /\ pure.loads # << >>
    /\ \E tag \in LookupTags :
           pure' = [pure EXCEPT !.fn = "GetFieldName", !.tag = tag, !.val = "",
                                !.out = GetFieldName(pure.loads[1], tag)]
    /\ UNCHANGED <<heap, cacheVars>>

\* d.GetEnumDescription(tag, val) on the first load
GetEnumDescriptionCall ==
    /\ pure.op = "parseDictionary" /\ pure.loads # << >>
    /\ \E tag \in LookupTags : \E val \in LookupValues :
           pure' = [pure EXCEPT !.fn = "GetEnumDescription", !.tag = tag, !.val = val,
                                !.out = GetEnumDescription(pure.loads[1], tag, val)]
    /\ UNCHANGED <<heap, cacheVars>>

NextLookup ==
    \/ ParseDictionaryCall
    \/ GetFieldNameCall
    \/ GetEnumDescriptionCall

SpecLookup == InitLookup /\ [][NextLookup]_vars

\* ------------------------------------------------------------------------
\* properties of the accessors
\* ------------------------------------------------------------------------

Asked(fn) == pure.op = "parseDictionary" /\ pure.fn = fn

\* the positions of the field elements of the text that declare the tag
DeclarationsOf(tag) ==
    {i \in 1..Len(pure.xml.Fields) : pure.xml.Fields[i].Tag = tag}

\* the name the last field element of the tag declares
DeclaredName(tag) ==
    pure.xml.Fields[CHOOSE i \in DeclarationsOf(tag) :
                        \A j \in DeclarationsOf(tag) : j <= i].Name

\* GetFieldName gave the declared name of a declared tag, the decimal string
\* of any other
NameOrNumber ==
    IF DeclarationsOf(pure.tag) # {}
    THEN pure.out = DeclaredName(pure.tag)
    ELSE /\ pure.out = (IF pure.tag < 0 THEN "-" ELSE "")
                         \o NatString(IF pure.tag < 0 THEN 0 - pure.tag ELSE pure.tag)
         /\ pure.out # ""

\* C21 as stated: GetFieldName(tag) is the declared name of a declared tag and
\* the decimal string of any other, and is never empty.
C21_NameNeverEmpty ==
    Asked("GetFieldName") => NameOrNumber /\ pure.out # ""

\* C21: GetFieldName(tag) is the declared name of a declared tag (of its last
\* declaration) and the decimal string of any other; it is empty only for a
\* tag declared with an empty name.
C21_NameOrNumber ==
    Asked("GetFieldName") =>
        /\ NameOrNumber
        /\ pure.out = "" => DeclarationsOf(pure.tag) # {} /\ DeclaredName(pure.tag) = ""

\* the tag of a field element without a name was asked for, in a text that
\* declares a named field too
C21_Witness ==
    /\ Asked("GetFieldName") /\ pure.tag = 5 /\ pure.out = ""
    /\ DeclarationsOf(5) # {} /\ DeclarationsOf(54) # {}

\* C22: GetEnumDescription(tag, value) is the description the enum map of the
\* tag holds for the value, and the empty string when the tag has no enum
\* map or the map does not hold the value.
C22_DescriptionOrEmpty ==
    Asked("GetEnumDescription") =>
        LET enumMap == pure.loads[1].enumMap
        IN  /\ pure.tag \notin DOMAIN enumMap => pure.out = ""
            /\ pure.tag \in DOMAIN enumMap =>
                  /\ pure.val \notin DOMAIN enumMap[pure.tag] => pure.out = ""
                  /\ \A v \in DOMAIN enumMap[pure.tag] :
                        v = pure.val => pure.out = enumMap[pure.tag][v]

\* a value the enum map of a declared tag does not hold was asked for
C22_Witness ==
    /\ Asked("GetEnumDescription") /\ pure.tag = 54 /\ pure.val = "A"
    /\ 54 \in DOMAIN pure.loads[1].enumMap /\ pure.out = ""

\* ------------------------------------------------------------------------
\* IsValidType on its own
\* ------------------------------------------------------------------------

\* the characters the checked values are put together from
ValueChars == {"1", "-", ".", "Y", "a", ":"}

\* the longest value put together from ValueChars
MaxValueLen == 2

RECURSIVE ValuesOfLen(_)
ValuesOfLen(n) ==
    IF n = 0 THEN {""}
    ELSE {c \o rest : c \in ValueChars, rest \in ValuesOfLen(n - 1)}

\* the values handed to IsValidType
TypeValues ==
    UNION {ValuesOfLen(n) : n \in 0..MaxValueLen}
    \cup {"anything", "1e5", "20240229", "12:30", "20240101-12:30:00"}

\* the type names handed to IsValidType: recognized kinds, string-like kinds,
\* custom names, each in more than one spelling, and the empty name
TypeNames ==
    {"INT", "int", "Float", "BOOLEAN", "char", "UTCTIMESTAMP", "utcdateonly",
     "UtcTimeOnly", "MONTHYEAR", "STRING", "string", "Data", "currency",
     "EXCHANGE", "Country", "MULTIPLEVALUESTRING", "multiplestringvalue",
     "UNKNOWN_CUSTOM_TYPE", "Tenor", "INTEGER", " INT", ""}

\* the tag of the field whose type is looked at
TypedTag == 99

\* a dictionary that declares TypedTag with the type, and no values
TypedDict(typ) == [EmptyLookup EXCEPT !.fieldTypes = (TypedTag :> typ)]

InitType ==
    /\ pure \in {[op |-> "IsValidType", val |-> val, typ |-> typ, fn |-> "",
                  valid |-> FALSE, findings |-> << >>] :
                    val \in TypeValues, typ \in TypeNames}
    /\ heap = << >>
    /\ dicts = EmptyMap /\ readers = {} /\ pending = NoOne /\ writer = NoOne
    /\ stack = [g \in Goroutines |-> << >>]
    /\ result = [g \in Goroutines |-> NoResult]
    /\ calls = 0 /\ badXML = {}

\* valid := IsValidType(val, typ)
IsValidTypeCall ==
    /\ pure.op = "IsValidType" /\ pure.fn = ""
    /\ pure' = [pure EXCEPT !.fn = "IsValidType", !.valid = IsValidType(pure.val, pure.typ)]
    /\ UNCHANGED <<heap, cacheVars>>

\* validateFieldEnumsAndTypes on the one field TypedTag=val, under a
\* dictionary that declares the tag with the type
ValidateTypedFieldCall ==
    /\ pure.op = "IsValidType" /\ pure.fn = "IsValidType"
    /\ pure' = [pure EXCEPT
                   !.fn = "validateFieldEnumsAndTypes",
                   !.findings = validateFieldEnumsAndTypes(
                                    <<[Tag |-> TypedTag, Value |-> pure.val]>>,
                                    TypedDict(pure.typ))]
    /\ UNCHANGED <<heap, cacheVars>>

NextType ==
    \/ IsValidTypeCall
    \/ ValidateTypedFieldCall

SpecType == InitType /\ [][NextType]_vars

\* ------------------------------------------------------------------------
\* properties of IsValidType
\* ------------------------------------------------------------------------

\* the type names with a syntax rule, in capitals
PrimitiveKinds ==
    {"INT", "LENGTH", "NUMINGROUP", "SEQNUM", "DAYOFMONTH", "FLOAT", "QTY", "PRICE",
     "PRICEOFFSET", "AMT", "PERCENTAGE", "BOOLEAN", "CHAR", "UTCTIMESTAMP",
     "UTCDATEONLY", "UTCTIMEONLY", "MONTHYEAR"}

\* the string-like type names, in capitals
StringLikeKinds ==
    {"STRING", "DATA", "CURRENCY", "EXCHANGE", "COUNTRY", "MULTIPLEVALUESTRING",
     "MULTIPLESTRINGVALUE"}

\* typ is some spelling, in capitals and small letters, of a name of kinds
SpellingOf(typ, kinds) ==
    \E kind \in kinds :
        /\ Len(typ) = Len(kind)
        /\ \A i \in 1..Len(kind) : UpperOf(CharAt(typ, i)) = CharAt(kind, i)

\* C23: IsValidType(value, type) is true for every value when the type name,
\* whatever its case, is string-like or is not a recognized primitive kind, and
\* the validator then has no invalid-type finding for a field of that type.
C23_PermissiveDefault ==
    (pure.op = "IsValidType" /\ pure.fn # ""
       /\ (SpellingOf(pure.typ, StringLikeKinds) \/ ~SpellingOf(pure.typ, PrimitiveKinds)))
    => /\ pure.valid
       /\ pure.fn = "validateFieldEnumsAndTypes" => pure.findings = << >>

\* a value no primitive kind accepts, checked and validated under a custom type
C23_Witness ==
    /\ pure.op = "IsValidType" /\ pure.fn = "validateFieldEnumsAndTypes"
    /\ pure.typ = "Tenor" /\ pure.val = "a:" /\ pure.valid /\ pure.findings = << >>

\* ------------------------------------------------------------------------
\* properties of parseDictionary
\* ------------------------------------------------------------------------

Loaded == pure.op = "parseDictionary" /\ pure.loads # << >>

\* the value elements of a field element, direct ones first
ValueElems(f) == f.Values \o f.ValuesWrapper

\* the description of the earliest value element of f with the code
EarliestDescription(f, code) ==
    LET hits == {k \in 1..Len(ValueElems(f)) : ValueElems(f)[k].Enum = code}
    IN  ValueElems(f)[CHOOSE k \in hits : \A j \in hits : k <= j].Description

\* C26: the enum map parseDictionary builds for a field holds the codes of
\* the field's direct value elements and of those inside its wrapper element,
\* each with the description of its earliest occurrence in the field.
C26_EarliestDescriptionKept ==
    Loaded =>
        \A i \in 1..Len(pure.xml.Fields) :
            LET f == pure.xml.Fields[i]
                enumMap == pure.loads[1].enumMap
            IN  (DeclarationsOf(f.Tag) = {i} /\ f.Tag # msgTypeTag /\ ValueElems(f) # << >>)
                => /\ f.Tag \in DOMAIN enumMap
                   /\ DOMAIN enumMap[f.Tag] = {v.Enum : v \in Range(ValueElems(f))}
                   /\ \A code \in DOMAIN enumMap[f.Tag] :
                         enumMap[f.Tag][code] = EarliestDescription(f, code)

\* C30: two loads of one well-formed dictionary text give equal
\* dictionaries, with the same FieldOrder and Required list for every message,
\* also when two field elements with different tag numbers declare one name.
C30_LoadsAgree ==
    (pure.op = "parseDictionary" /\ Len(pure.loads) = 2) =>
        /\ pure.loads[1] = pure.loads[2]
        /\ \A msgType \in DOMAIN pure.loads[1].Messages :
              /\ pure.loads[1].Messages[msgType].FieldOrder
                     = pure.loads[2].Messages[msgType].FieldOrder
              /\ pure.loads[1].Messages[msgType].Required
                     = pure.loads[2].Messages[msgType].Required

\* ------------------------------------------------------------------------
\* mergeLookups with the enum maps as shared objects
\* ------------------------------------------------------------------------

\* A Go map is a reference: here enumMap of a lookup maps a tag to the index
\* of a map object in objs, so that two lookups can hold the same object.

\* lookup with its enum maps allocated in objs: [objs, lookup]
AllocateEnums(objs, lookup) ==
    LET RECURSIVE Put(_, _)
        Put(st, tags) ==
            IF tags = {} THEN st
            ELSE LET tag == CHOOSE t \in tags : \A u \in tags : t <= u
                 IN  Put([objs |-> Append(st.objs, lookup.enumMap[tag]),
                          lookup |-> [st.lookup EXCEPT
                                         !.enumMap = MapPut(@, tag, Len(st.objs) + 1)]],
                         tags \ {tag})
    IN  Put([objs |-> objs, lookup |-> [lookup EXCEPT !.enumMap = EmptyMap]],
            DOMAIN lookup.enumMap)

\* the body of mergeLookups' second loop that stores src's own map object in
\* dst for a tag dst lacks
mergeEnumMapShares(st, src, tag) ==
    IF tag \in DOMAIN st.lookup.enumMap
    THEN [st EXCEPT !.objs[st.lookup.enumMap[tag]] =
                        mergeEnum(@, st.objs[src.enumMap[tag]])]
    ELSE [st EXCEPT !.lookup.enumMap = MapPut(@, tag, src.enumMap[tag])]

\* the body of mergeLookups' second loop for one tag of src:
\*   if _, ok := dst.enumMap[tag]; !ok { dst.enumMap[tag] = make(...) }
\*   for v, desc := range enumSrc { if absent { dst.enumMap[tag][v] = desc } }
mergeEnumMap(st, src, tag) ==
    LET made == IF tag \in DOMAIN st.lookup.enumMap THEN st
                ELSE [objs |-> Append(st.objs, EmptyMap),
                      lookup |-> [st.lookup EXCEPT
                                     !.enumMap = MapPut(@, tag, Len(st.objs) + 1)]]
    IN  [made EXCEPT !.objs[made.lookup.enumMap[tag]] =
                         mergeEnum(@, made.objs[src.enumMap[tag]])]

\* for tag, enumSrc := range src.enumMap { ... }
RECURSIVE mergeEnumMaps(_, _, _)
mergeEnumMaps(st, src, tags) ==
    IF tags = {} THEN st
    ELSE LET tag == CHOOSE t \in tags : \A u \in tags : t <= u
         IN  mergeEnumMaps(mergeEnumMap(st, src, tag), src, tags \ {tag})

\* mergeLookups(dst, src) on two non-nil lookups: [objs, lookup], the objects
\* and dst afterwards
mergeLookupsShared(objs, dst, src) ==
    mergeEnumMaps([objs |-> objs,
                   lookup |-> [dst EXCEPT !.tagToName = @ @@ src.tagToName]],
                  src, DOMAIN src.enumMap)

\* the lookups handed to mergeLookups: enum maps for any of the tags
\* 1..MaxMergeTag, a name, and types and messages that tell dst from src
SharedLookups(name, type, msgType) ==
    {[EmptyLookup EXCEPT !.tagToName = name, !.enumMap = enums,
                         !.fieldTypes = (1 :> type),
                         !.groupCounts = (1 :> TRUE),
                         !.groupOwners = (2 :> 1),
                         !.groupDefs = (1 :> [NumInGroupTag |-> 1, FieldOrder |-> <<2>>]),
                         !.Messages = (msgType :>
                             [Name |-> type, MsgType |-> msgType,
                              FieldOrder |-> <<1>>, Required |-> << >>])] :
        enums \in PartialMaps(1..MaxMergeTag, PartialMaps({"x", "y"}, {"P"}))}

\* dst and src are parsed apart: they share no object before the merge
InitShared ==
    /\ pure \in {LET d == AllocateEnums(<< >>, dst)
                     sr == AllocateEnums(d.objs, src)
                 IN  [op |-> "mergeLookupsShared", objs |-> sr.objs,
                      dst |-> d.lookup, src |-> sr.lookup,
                      before |-> [objs |-> sr.objs, dst |-> d.lookup, src |-> sr.lookup],
                      pc |-> "merge"] :
                    dst \in SharedLookups((1 :> "A"), "INT", "D"),
                    src \in SharedLookups((1 :> "B" @@ 2 :> "B"), "CHAR", "S")}
    /\ heap = << >>
    /\ dicts = EmptyMap /\ readers = {} /\ pending = NoOne /\ writer = NoOne
    /\ stack = [g \in Goroutines |-> << >>]
    /\ result = [g \in Goroutines |-> NoResult]
    /\ calls = 0 /\ badXML = {}

\* mergeLookups(dst, src)
MergeSharedCall ==
    /\ pure.op = "mergeLookupsShared" /\ pure.pc = "merge"
    /\ LET after == mergeLookupsShared(pure.objs, pure.dst, pure.src)
       IN  pure' = [pure EXCEPT !.objs = after.objs, !.dst = after.lookup, !.pc = "merged"]
    /\ UNCHANGED <<heap, cacheVars>>

\* a later write through dst: dst.enumMap[tag][v] = desc, as a further merge
\* into dst makes it
WriteThroughDst ==
    /\ pure.op = "mergeLookupsShared" /\ pure.pc = "merged"
    /\ \E tag \in DOMAIN pure.dst.enumMap : \E v \in {"x", "z"} :
           pure' = [pure EXCEPT !.objs[pure.dst.enumMap[tag]] = MapPut(@, v, "Z"),
                                !.pc = "written"]
    /\ UNCHANGED <<heap, cacheVars>>

NextShared ==
    \/ MergeSharedCall
    \/ WriteThroughDst

SpecShared == InitShared /\ [][NextShared]_vars

\* ------------------------------------------------------------------------
\* properties of mergeLookups on shared objects
\* ------------------------------------------------------------------------

\* the enum maps of a lookup as it reads them through the objects
EnumsSeen(objs, lookup) ==
    [tag \in DOMAIN lookup.enumMap |-> objs[lookup.enumMap[tag]]]

\* C29: mergeLookups(dst, src) leaves src as it was and changes of dst only
\* the tag names and the enum maps; afterwards dst holds no enum map object
\* of src, so a later write through dst leaves src as it was.
C29_MergeFrame ==
    (pure.op = "mergeLookupsShared" /\ pure.pc # "merge") =>
        /\ pure.src = pure.before.src
        /\ EnumsSeen(pure.objs, pure.src) = EnumsSeen(pure.before.objs, pure.before.src)
        /\ pure.dst.fieldTypes = pure.before.dst.fieldTypes
        /\ pure.dst.groupCounts = pure.before.dst.groupCounts
        /\ pure.dst.groupOwners = pure.before.dst.groupOwners
        /\ pure.dst.groupDefs = pure.before.dst.groupDefs
        /\ pure.dst.Messages = pure.before.dst.Messages
        /\ Range(pure.dst.enumMap) \cap Range(pure.src.enumMap) = {}

\* dst got a map for a tag only src had, and the description of a code of
\* that map was then overwritten through dst
C29_Witness ==
    /\ pure.op = "mergeLookupsShared" /\ pure.pc = "written"
    /\ DOMAIN pure.before.dst.enumMap = {1}
    /\ DOMAIN pure.src.enumMap = {1, 2}
    /\ "x" \in DOMAIN pure.objs[pure.src.enumMap[2]]
    /\ pure.objs[pure.dst.enumMap[2]]["x"] = "Z"
    /\ pure.objs[pure.src.enumMap[2]]["x"] = "P"

====
